---- MODULE Spec2Model ----
(***************************************************************************)
(* Financial-statement table extraction of the DART crawler:               *)
(*   app/utils/data.py      text normalisation (clean_account_name,        *)
(*                          clean_paragraph_text)                          *)
(*   app/src/crawler.py     table validation (valid_standard_nb_table,     *)
(*                          valid_standard_data_table) and the page scan   *)
(*                          (search_right_panel)                           *)
(*   app/src/past_version_crawler.py                                       *)
(*                          the earlier page extraction (crawling_dataset) *)
(*                          the storage loop of left_panel_slider and the  *)
(*                          company run (get_corp_fs)                      *)
(*                                                                         *)
(* A Python string is a sequence of characters; a character is a token.    *)
(* Hangul syllables are written in romanised form:                         *)
(*   yeon gyeol = 연결, jae mu sang tae pyo = 재무상태표,                    *)
(*   po gwal = 포괄, son ik gye san seo = 손익계산서,                        *)
(*   jae mu je pyo = 재무제표, gwa mok = 과목, ju seok = 주석,               *)
(*   dan wi = 단위, won = 원, je .. gi = 제 .. 기, ja san = 자산,            *)
(*   yu dong = 유동, bi = 비, hyeon geum = 현금, ga = 가,                    *)
(*   al su eops eum = 알 수 없음.                                            *)
(* Other tokens: sp tab nl (ASCII white space), fwsp (U+3000), fw( fw)      *)
(* (full-width parentheses), lb rb (the brackets 【 】), quote ("),          *)
(* rn1 (the Unicode Roman numeral Ⅰ).                                      *)
(***************************************************************************)
EXTENDS Integers, Sequences, FiniteSets, TLC

VARIABLES
    pc,         \* position of the running operation
    tables,     \* search_right_panel: the tables of tables_list the loop has handled
    curYear,    \* search_right_panel: current_year, the first 4 characters of rcept_no
    dataset,    \* search_right_panel / crawling_dataset: dataset
    made,       \* history: for each record of dataset, the index of the nb table it came from
    lastOut,    \* history: what the last loop iteration did with its table
    rows,       \* row scan: the tbody rows handled so far
    byLevel,    \* row scan: current_accounts_by_level
    ordValue,   \* row scan: ord_value
    accounts,   \* row scan: account_data
    input,      \* pure functions: the argument
    verdict,    \* pure functions: the value returned
    paragraphs, \* crawling_dataset: the texts of the p elements of the page
    idx,        \* crawling_dataset: the index of the running loop
    db,         \* left_panel_slider: the documents of the database "dart"
    clock,      \* left_panel_slider: the number of stores made (get_current_korea_time)
    stored,     \* history: the keys a store has completed for
    driver,     \* get_corp_fs: self.driver, NoDriver or the number of a driver
    created,    \* history: the number of drivers _create_driver has returned
    cleaned,    \* history: the drivers _clean_up_driver has closed and quit
    urlsLeft,   \* get_corp_fs: the entries of fs_url_list not yet handled
    collected_data,          \* get_corp_fs: collected_data
    fs_collection_results,   \* get_corp_fs: fs_collection_results
    result      \* get_corp_fs: the tuple returned (success, data, summary)

pageVars == <<tables, curYear, dataset, made, lastOut>>
rowVars == <<rows, byLevel, ordValue, accounts>>
pureVars == <<input, verdict>>
pastVars == <<paragraphs, idx>>
storeVars == <<db, clock, stored>>
fsVars == <<driver, created, cleaned, urlsLeft, collected_data, fs_collection_results, result>>

vars == <<pc, pageVars, rowVars, pureVars, pastVars, storeVars, fsVars>>

\* self.driver = None (past_version_crawler.py, line 78)
NoDriver == 0

\* get_corp_fs is not running
FsIdle ==
    /\ driver = NoDriver /\ created = 0 /\ cleaned = {}
    /\ urlsLeft = 0 /\ collected_data = <<>> /\ fs_collection_results = <<>>
    /\ result = <<>>

-----------------------------------------------------------------------------
(* Characters *)

HANGUL == {"yeon", "gyeol", "jae", "mu", "je", "pyo", "sang", "tae", "son", "ik",
           "gye", "san", "seo", "po", "gwal", "gwa", "mok", "ja", "yu", "dong",
           "ju", "seok", "dan", "wi", "won", "gi", "hyeon", "geum", "ga", "bi",
           "al", "su", "eops", "eum"}
DIGITS == {"0", "1", "2", "3", "4", "5", "6", "7", "8", "9"}
ROMAN == {"I", "V", "X", "L", "C", "D", "M"}
LETTERS == ROMAN \cup {"a", "b", "B", "S", "O", "F"}
UNIROMAN == {"rn1"}
\* what Python's str.strip()/lstrip() and the regex class \s take for white space
WS == {"sp", "tab", "nl", "fwsp"}
\* the regex class \w (Unicode aware): letters, digits, underscore, numeric glyphs
WORDCH == HANGUL \cup DIGITS \cup LETTERS \cup UNIROMAN \cup {"_"}

None == <<"None">>  \* Python's None, where a text may be None
\* values that are not a str (isinstance(text, str) is false): None, a number
NonText == {None, <<"Number">>}

-----------------------------------------------------------------------------
(* Python string primitives *)

RECURSIVE LStrip(_)
LStrip(s) == IF s # <<>> /\ Head(s) \in WS THEN LStrip(Tail(s)) ELSE s

RECURSIVE RStrip(_)
RStrip(s) ==
    IF s # <<>> /\ s[Len(s)] \in WS THEN RStrip(SubSeq(s, 1, Len(s) - 1)) ELSE s

Strip(s) == RStrip(LStrip(s))

StartsAt(s, p, lit) ==
    /\ p + Len(lit) - 1 <= Len(s)
    /\ \A k \in 1..Len(lit) : s[p + k - 1] = lit[k]

\* the Python test `lit in s`
Contains(s, lit) == \E p \in 1..(Len(s) + 1) : StartsAt(s, p, lit)

RECURSIVE ReplaceFrom(_, _, _, _)
ReplaceFrom(s, p, old, new) ==
    IF p > Len(s) THEN <<>>
    ELSE IF StartsAt(s, p, old) THEN new \o ReplaceFrom(s, p + Len(old), old, new)
    ELSE <<s[p]>> \o ReplaceFrom(s, p + 1, old, new)

\* s.replace(old, new), old not empty
Replace(s, old, new) == ReplaceFrom(s, 1, old, new)

RECURSIVE DeleteChars(_, _)
DeleteChars(s, set) ==
    IF s = <<>> THEN <<>>
    ELSE IF Head(s) \in set THEN DeleteChars(Tail(s), set)
    ELSE <<Head(s)>> \o DeleteChars(Tail(s), set)

\* length of the longest run of characters of `set` that starts at p
RECURSIVE RunLen(_, _, _)
RunLen(s, p, set) ==
    IF p <= Len(s) /\ s[p] \in set THEN 1 + RunLen(s, p + 1, set) ELSE 0

\* position of the first character of `set` at or after p, 0 when there is none
RECURSIVE FindChar(_, _, _)
FindChar(s, p, set) ==
    IF p > Len(s) THEN 0
    ELSE IF s[p] \in set THEN p
    ELSE FindChar(s, p + 1, set)

-----------------------------------------------------------------------------
(* Text normalisation: app/utils/data.py *)

\* r'\b[IVXLCDM]+\b\.?' tried at p: the length matched, 0 when it does not match.
\* Roman letters are word characters, so \b holds before the run only after a
\* non-word character (or at the start) and after it only at the end of the whole run.
RomanMatch(s, p) ==
    IF s[p] \in ROMAN /\ (p = 1 \/ s[p - 1] \notin WORDCH)
    THEN LET n == RunLen(s, p, ROMAN)
         IN  IF p + n > Len(s) THEN n
             ELSE IF s[p + n] \in WORDCH THEN 0
             ELSE IF s[p + n] = "." THEN n + 1
             ELSE n
    ELSE 0

\* r'\(주[0-9,\s]*\)' tried at p
FootnoteMatch(s, p) ==
    IF s[p] = "(" /\ p + 1 <= Len(s) /\ s[p + 1] = "ju"
    THEN LET n == RunLen(s, p + 2, DIGITS \cup {","} \cup WS)
         IN  IF p + 2 + n <= Len(s) /\ s[p + 2 + n] = ")" THEN n + 3 ELSE 0
    ELSE 0

\* r'\([^)]*\)' (and its full-width twin) tried at p
ParenMatch(s, p, open, close) ==
    IF s[p] = open
    THEN LET q == FindChar(s, p + 1, {close})
         IN  IF q = 0 THEN 0 ELSE q - p + 1
    ELSE 0

\* r'[가-힣]\.\s*' tried at p
PrefixMatch(s, p) ==
    IF s[p] \in HANGUL /\ p + 1 <= Len(s) /\ s[p + 1] = "."
    THEN 2 + RunLen(s, p + 2, WS)
    ELSE 0

MatchAt(rx, s, p) ==
    CASE rx = "roman" -> RomanMatch(s, p)
      [] rx = "footnote" -> FootnoteMatch(s, p)
      [] rx = "paren" -> ParenMatch(s, p, "(", ")")
      [] rx = "fwparen" -> ParenMatch(s, p, "fw(", "fw)")
      [] rx = "prefix" -> PrefixMatch(s, p)

\* re.sub(rx, '', s): the matches, leftmost first and not overlapping, are removed
RECURSIVE SubFrom(_, _, _)
SubFrom(rx, s, p) ==
    IF p > Len(s) THEN <<>>
    ELSE LET n == MatchAt(rx, s, p)
         IN  IF n > 0 THEN SubFrom(rx, s, p + n)
             ELSE <<s[p]>> \o SubFrom(rx, s, p + 1)

ReSub(rx, s) == SubFrom(rx, s, 1)

UNIT_WON == <<"(", "dan", "wi", ":", "won", ")">>   \* the literal (단위:원)

clean_account_name(text) ==
    IF text \in NonText \/ text = <<>> THEN <<>>
    ELSE LET t1 == Strip(text)
             t2 == Replace(Replace(t1, UNIT_WON, <<>>), <<"quote">>, <<>>)
             t3 == DeleteChars(ReSub("roman", t2), UNIROMAN)
             t4 == ReSub("footnote", t3)
             t5 == ReSub("fwparen", ReSub("paren", t4))
             t6 == ReSub("prefix", t5)
             t7 == DeleteChars(t6, DIGITS \cup {".", "-", "_", "lb", "rb"})
             t8 == Replace(t7, <<"fwsp">>, <<>>)
         IN  DeleteChars(t8, WS)

\* variant: the caption pipeline without step 6 (the prefixes 가., 나., ...)
clean_paragraph_text_no_prefix(text) ==
    IF text \in NonText \/ text = <<>> THEN <<>>
    ELSE LET t1 == Strip(text)
             t2 == Replace(Replace(t1, UNIT_WON, <<>>), <<"quote">>, <<>>)
             t3 == DeleteChars(ReSub("roman", t2), UNIROMAN)
             t4 == ReSub("footnote", t3)
             t5 == ReSub("fwparen", ReSub("paren", t4))
             t7 == DeleteChars(t5, DIGITS \cup {".", "-", "_", "lb", "rb"})
             t8 == Replace(t7, <<"fwsp">>, <<>>)
         IN  DeleteChars(t8, WS)

clean_paragraph_text(text) ==
    IF text \in NonText \/ text = <<>> THEN <<>>
    ELSE LET t1 == Strip(text)
             t2 == Replace(Replace(t1, UNIT_WON, <<>>), <<"quote">>, <<>>)
             t3 == DeleteChars(ReSub("roman", t2), UNIROMAN)
             t4 == ReSub("footnote", t3)
             t5 == ReSub("fwparen", ReSub("paren", t4))
             t6 == ReSub("prefix", t5)
             t7 == DeleteChars(t6, DIGITS \cup {".", "-", "_", "lb", "rb"})
             t8 == Replace(t7, <<"fwsp">>, <<>>)
         IN  DeleteChars(t8, WS)

-----------------------------------------------------------------------------
(* Table validation: app/src/crawler.py *)

\* re.match(r'제\s*\d+\s*기', t): the pattern at the start of t
PeriodMatch(t) ==
    /\ t # <<>>
    /\ t[1] = "je"
    /\ LET a == 2 + RunLen(t, 2, WS)
           d == RunLen(t, a, DIGITS)
           b == a + d + RunLen(t, a + d, WS)
       IN  d >= 1 /\ b <= Len(t) /\ t[b] = "gi"

\* `td_text and re.match(..., td_text.strip())` for the text of one cell
PeriodCell(text) == text # None /\ text # <<>> /\ PeriodMatch(Strip(text))

MIN_NB_ROWS == 5

\* variant: a table of 4 rows is let through
valid_standard_nb_table_short(table) ==
    IF Len(table.trs) < MIN_NB_ROWS - 1 THEN FALSE
    ELSE LET years_found ==
                 {i \in 1..3 : /\ Len(table.trs[i + 1]) >= 1
                               /\ PeriodCell(table.trs[i + 1][1])}
         IN  Cardinality(years_found) = 3

\* A table is [cls, border, thead, trs]: thead and trs are sequences of rows, a row
\* is the sequence of the texts of its cells (th in thead, td in trs).
\* Source row index i is trs[i + 1].
valid_standard_nb_table(table) ==
    IF Len(table.trs) < MIN_NB_ROWS THEN FALSE
    ELSE LET years_found ==
                 {i \in 1..3 : /\ Len(table.trs[i + 1]) >= 1
                               /\ PeriodCell(table.trs[i + 1][1])}
         IN  Cardinality(years_found) = 3

HEADER_CELLS == 4

\* the loop over header_list: cell j = 0 must be blank, the cells 1 < j < 4 must be
\* blank or match; a failing cell only ever sets the flag to False
valid_standard_data_table(table) ==
    IF Len(table.thead) = 0 THEN FALSE
    ELSE LET header == table.thead[1]
         IN  /\ Len(header) = HEADER_CELLS
             /\ \A j \in 0..(Len(header) - 1) :
                    /\ (j = 0 => Strip(header[j + 1]) = <<>>)
                    /\ (1 < j /\ j < 4 /\ Strip(header[j + 1]) # <<>>
                            => PeriodMatch(Strip(header[j + 1])))

-----------------------------------------------------------------------------
(* Page scan: app/src/crawler.py, search_right_panel *)

YEONGYEOL == <<"yeon", "gyeol">>                       \* 연결
JAEMUJEPYO == <<"jae", "mu", "je", "pyo">>             \* 재무제표
JAEMUSANGTAEPYO == <<"jae", "mu", "sang", "tae", "pyo">>   \* 재무상태표
SONIK == <<"son", "ik", "gye", "san", "seo">>          \* 손익계산서
POGWALSONIK == <<"po", "gwal">> \o SONIK               \* 포괄손익계산서
GWAMOK == <<"gwa", "mok">>                             \* 과목

TARGET_SJ_LIST ==
    {YEONGYEOL \o JAEMUJEPYO, JAEMUJEPYO,
     YEONGYEOL \o JAEMUSANGTAEPYO, YEONGYEOL \o SONIK, YEONGYEOL \o POGWALSONIK,
     JAEMUSANGTAEPYO, SONIK, POGWALSONIK}

FsDiv(nb_title) ==
    IF Contains(nb_title, YEONGYEOL) THEN <<"C", "F", "S">> ELSE <<"O", "F", "S">>

\* variant: 손익계산서 tested before 포괄손익계산서
SjKindSwapped(nb_title) ==
    IF Contains(nb_title, JAEMUSANGTAEPYO) THEN <<"B", "S">>
    ELSE IF Contains(nb_title, SONIK) THEN <<"I", "S">>
    ELSE IF Contains(nb_title, POGWALSONIK) THEN <<"C", "I", "S">>
    ELSE nb_title

\* the if/elif chain of lines 360-365; with no branch taken sj_div stays the caption
SjKind(nb_title) ==
    IF Contains(nb_title, JAEMUSANGTAEPYO) THEN <<"B", "S">>
    ELSE IF Contains(nb_title, POGWALSONIK) THEN <<"C", "I", "S">>
    ELSE IF Contains(nb_title, SONIK) THEN <<"I", "S">>
    ELSE nb_title

\* f"{fs_div}_{sj_div}"
SjDivCode(nb_title) == FsDiv(nb_title) \o <<"_">> \o SjKind(nb_title)

\* tr.text_content(): the texts of the row's cells, one after the other
RowText(row) ==
    LET RECURSIVE Cat(_)
        Cat(k) == IF k > Len(row) THEN <<>>
                  ELSE (IF row[k] = None THEN <<>> ELSE row[k]) \o Cat(k + 1)
    IN  Cat(1)

\* r'\(\s*단위\s*:\s*([^)]+)\)' tried at p: 0 when it does not match, else the
\* position of the closing parenthesis
UnitMatch(s, p) ==
    IF s[p] # "(" THEN 0
    ELSE LET a == p + 1 + RunLen(s, p + 1, WS)
         IN  IF ~StartsAt(s, a, <<"dan", "wi">>) THEN 0
             ELSE LET b == a + 2 + RunLen(s, a + 2, WS)
                  IN  IF b > Len(s) \/ s[b] # ":" THEN 0
                      ELSE LET close == FindChar(s, b + 1, {")"})
                           IN  IF close > b + 1 THEN close ELSE 0

\* re.search(...) on the unit row, then group(1).strip(); None without a match
RECURSIVE UnitFrom(_, _)
UnitFrom(s, p) ==
    IF p > Len(s) THEN None
    ELSE LET close == UnitMatch(s, p)
         IN  IF close = 0 THEN UnitFrom(s, p + 1)
             ELSE LET colon == FindChar(s, p, {":"})
                  IN  Strip(SubSeq(s, colon + 1, close - 1))

UnitOf(table) == UnitFrom(RowText(table.trs[5]), 1)

-----------------------------------------------------------------------------
(* Row scan of one data table: app/src/crawler.py, lines 410-474 *)

DigitSeq == <<"0", "1", "2", "3", "4", "5", "6", "7", "8", "9">>
DigitVal(c) == CHOOSE d \in 0..9 : DigitSeq[d + 1] = c

\* int(s) for a string of digits
RECURSIVE IntOf(_)
IntOf(s) ==
    IF s = <<>> THEN 0 ELSE 10 * IntOf(SubSeq(s, 1, Len(s) - 1)) + DigitVal(s[Len(s)])

\* str(n) for n >= 0
RECURSIVE StrOf(_)
StrOf(n) ==
    IF n < 10 THEN <<DigitSeq[n + 1]>> ELSE StrOf(n \div 10) \o <<DigitSeq[(n % 10) + 1]>>

\* years = [str(int(current_year) - 1), str(int(current_year) - 2), str(int(current_year) - 3)]
YearsOf(current_year) ==
    <<StrOf(IntOf(current_year) - 1), StrOf(IntOf(current_year) - 2),
      StrOf(IntOf(current_year) - 3)>>

Truthy(text) == text # None /\ text # <<>>

\* raw_account_name.replace('　', ' ')
RawName(text) == Replace(text, <<"fwsp">>, <<"sp">>)

\* len(raw_account_name) - len(raw_account_name.lstrip())
LeadingSpaces(raw) == Len(raw) - Len(LStrip(raw))

\* variant: a level keeps the first name stored at it
PutLevelKeepFirst(map, level, name) ==
    [l \in (DOMAIN map) \cup {level} |-> IF l \in DOMAIN map THEN map[l] ELSE name]

\* variant: writing a level forgets the deeper levels
PutLevelClearDeeper(map, level, name) ==
    [l \in {m \in DOMAIN map : m < level} \cup {level} |->
        IF l = level THEN name ELSE map[l]]

\* current_accounts_by_level[account_level] = account_name
PutLevel(map, level, name) ==
    [l \in (DOMAIN map) \cup {level} |-> IF l = level THEN name ELSE map[l]]

\* for level in range(account_level): if level in current_accounts_by_level: append
RECURSIVE AncestorsFrom(_, _, _)
AncestorsFrom(map, level, account_level) ==
    IF level >= account_level THEN <<>>
    ELSE (IF level \in DOMAIN map THEN <<map[level]>> ELSE <<>>)
             \o AncestorsFrom(map, level + 1, account_level)

\* variant: range(account_level + 1)
AncestorsUpTo(map, account_level) == AncestorsFrom(map, 0, account_level + 1)

Ancestors(map, account_level) == AncestorsFrom(map, 0, account_level)

\* the cells k = 1..3 of the row: a cell with text gives one {year: amount} entry
RECURSIVE AmountsFrom(_, _, _)
AmountsFrom(row, k, years) ==
    IF k > 3 \/ k + 1 > Len(row) THEN <<>>
    ELSE (IF Truthy(row[k + 1])
          THEN <<[year |-> years[k],
                  amount |-> IF Strip(row[k + 1]) # <<>> THEN Strip(row[k + 1]) ELSE <<"0">>]>>
          ELSE <<>>)
             \o AmountsFrom(row, k + 1, years)

\* whether the row is appended to account_data (lines 459-463)
Emitted(account_name) == account_name # GWAMOK /\ account_name # <<>>

\* variant: ord_value advances on skipped rows too
OrdAfterAnyRow(ord_value, account_name) == ord_value + 1

\* ord_value after the row (line 472, inside `if account_name:`)
OrdAfter(ord_value, account_name) ==
    IF Emitted(account_name) THEN ord_value + 1 ELSE ord_value

\* One iteration of `for j, row in enumerate(tbody_list)`.
\* st = [byLevel, ord, accounts]; row = the texts of the row's td cells.
RowStep(st, row, years) ==
    LET named == Len(row) >= 1 /\ Truthy(row[1])
        raw_account_name ==
            IF named THEN RawName(row[1]) ELSE IF Len(row) >= 1 THEN row[1] ELSE <<>>
        account_level == IF named THEN LeadingSpaces(raw_account_name) ELSE 0
        account_name == IF named THEN clean_account_name(raw_account_name) ELSE <<>>
        map == IF named THEN PutLevel(st.byLevel, account_level, account_name)
               ELSE st.byLevel
        ancestors == IF named THEN Ancestors(map, account_level) ELSE <<>>
        amounts == AmountsFrom(row, 1, years)
    IN  [byLevel |-> map,
         ord |-> OrdAfter(st.ord, account_name),
         accounts |->
             IF Emitted(account_name)
             THEN Append(st.accounts,
                         [ord_value |-> st.ord,
                          raw_account_name |-> raw_account_name,
                          account_name |-> account_name,
                          amounts |-> amounts,
                          account_level |-> account_level,
                          ancestors |-> ancestors])
             ELSE st.accounts]

\* A cell whose text_content() raises (the element is detached, the read times
\* out): the call is awaited inside the loop without a handler of its own.
Broken == <<"Error">>

\* whether the iteration over the row raises: it reads the cells k = 0..3
RowRaises(row) == \E k \in 1..Len(row) : k <= 4 /\ row[k] = Broken

\* whether the loop over tbody_list raises before it ends
ScanRaises(trs) == \E j \in 1..Len(trs) : RowRaises(trs[j])

\* lines 413-415: the state a data table's scan starts from
ScanStart == [byLevel |-> <<>>, ord |-> 1, accounts |-> <<>>]

\* the whole loop over tbody_list
RECURSIVE ScanFrom(_, _, _, _)
ScanFrom(st, trs, j, years) ==
    IF j > Len(trs) THEN st ELSE ScanFrom(RowStep(st, trs[j], years), trs, j + 1, years)

AccountData(table, current_year) ==
    ScanFrom(ScanStart, table.trs, 1, YearsOf(current_year)).accounts

-----------------------------------------------------------------------------
(* Amount parsing: app/utils/data.py, str_to_number, lines 161-191 *)

\* Python values handed to str_to_number: a string, a number, None
PyStr(s) == [type |-> "str", value |-> s]
PyNum(n) == [type |-> "num", value |-> n]
PyNone == [type |-> "none", value |-> None]

\* str(amount_str)
PyText(v) == IF v.type = "none" THEN <<"N", "o", "n", "e">> ELSE v.value

\* float(s) on the texts of the model (digits, sign, comma, parentheses, white
\* space): white space around is dropped, then an optional sign and at least one
\* digit; anything else is a ValueError (ok = FALSE)
FloatOf(s) ==
    LET t == Strip(s)
        signed == t # <<>> /\ t[1] \in {"-", "+"}
        body == IF signed THEN Tail(t) ELSE t
    IN  IF body # <<>> /\ \A i \in 1..Len(body) : body[i] \in DIGITS
        THEN [ok |-> TRUE, v |-> IF signed /\ t[1] = "-" THEN 0 - IntOf(body) ELSE IntOf(body)]
        ELSE [ok |-> FALSE, v |-> 0]

str_to_number(amount_str) ==
    IF amount_str.type = "num" THEN amount_str.value
    ELSE LET s == Strip(PyText(amount_str))
             is_negative == s # <<>> /\ s[1] = "(" /\ s[Len(s)] = ")"
             inner == IF is_negative THEN SubSeq(s, 2, Len(s) - 1) ELSE s
             value == FloatOf(DeleteChars(inner, {","}))
         IN  IF ~value.ok THEN 0
             ELSE IF is_negative THEN 0 - value.v ELSE value.v

-----------------------------------------------------------------------------
(* One iteration of `for i, table in enumerate(tables_list)`, lines 312-484 *)

\* lines 320-331 and 346-389: the record an accepted nb table appends
Template(table, current_year) ==
    [bsns_year |-> current_year,
     sj_div |-> SjDivCode(clean_paragraph_text(RowText(table.trs[1]))),
     unit |-> UnitOf(table),
     data |-> <<>>]

\* what the iteration does with its table
Outcome(ds, table) ==
    IF table.cls = "nb"
    THEN IF ~valid_standard_nb_table(table) THEN "nb_rejected"
         ELSE IF clean_paragraph_text(RowText(table.trs[1])) \notin TARGET_SJ_LIST
         THEN "caption_miss"
         ELSE "record"
    ELSE IF table.border = "1"
    THEN IF ~valid_standard_data_table(table) THEN "data_rejected"
         ELSE IF ScanRaises(table.trs) THEN "data_raised"
         ELSE IF Len(ds) > 0 THEN "data_merged"
         ELSE "data_dropped"
    ELSE "other"

\* variant: the level map is not emptied before a table is scanned
ScanResetKeepsMap(prev) == [ScanStart EXCEPT !.byLevel = prev.byLevel]

\* lines 413-415: current_accounts_by_level, ord_value and account_data are
\* assigned anew before the rows of a data table are scanned; prev holds the
\* values the three names had
ScanReset(prev) == ScanStart

\* the rows in front of the first row whose reading raises
RECURSIVE ReadableFrom(_, _)
ReadableFrom(trs, j) ==
    IF j > Len(trs) \/ RowRaises(trs[j]) THEN <<>>
    ELSE <<trs[j]>> \o ReadableFrom(trs, j + 1)

\* the row whose reading raises: its name cell, read before the cell that
\* raises, has written the level map (lines 429-441)
RaisingRowStep(st, row) ==
    IF row[1] # Broken /\ Truthy(row[1])
    THEN [st EXCEPT !.byLevel = PutLevel(st.byLevel, LeadingSpaces(RawName(row[1])),
                                         clean_account_name(RawName(row[1])))]
    ELSE st

\* the scan of a data table that raises in one of its rows
ScanUntilRaise(st, trs, years) ==
    RaisingRowStep(ScanFrom(st, ReadableFrom(trs, 1), 1, years),
                   trs[Len(ReadableFrom(trs, 1)) + 1])

\* current_accounts_by_level, ord_value and account_data after the iteration
ScanAfter(prev, ds, table, current_year) ==
    CASE Outcome(ds, table) \in {"data_merged", "data_dropped"} ->
            ScanFrom(ScanReset(prev), table.trs, 1, YearsOf(current_year))
      [] Outcome(ds, table) = "data_raised" ->
            ScanUntilRaise(ScanReset(prev), table.trs, YearsOf(current_year))
      [] OTHER -> prev

\* variant: the accounts of a data table that finds no record are kept as a
\* record of their own
TableStepKeepsOrphans(prev, ds, table, current_year) ==
    CASE Outcome(ds, table) = "record" -> Append(ds, Template(table, current_year))
      [] Outcome(ds, table) = "data_merged" ->
            [ds EXCEPT ![Len(ds)].data = ScanAfter(prev, ds, table, current_year).accounts]
      [] Outcome(ds, table) = "data_dropped" ->
            <<[bsns_year |-> current_year, sj_div |-> <<>>, unit |-> <<>>,
               data |-> ScanAfter(prev, ds, table, current_year).accounts]>>
      [] OTHER -> ds

\* dataset after the iteration
TableStep(prev, ds, table, current_year) ==
    CASE Outcome(ds, table) = "record" -> Append(ds, Template(table, current_year))
      [] Outcome(ds, table) = "data_merged" ->
            [ds EXCEPT ![Len(ds)].data = ScanAfter(prev, ds, table, current_year).accounts]
      [] OTHER -> ds

-----------------------------------------------------------------------------
(* Inputs *)

MaxTables == 3       \* tables on one page
MaxRows == 3         \* rows scanned in one data table
MaxLevel == 2        \* leading spaces of an account cell
MaxTitleRows == 6    \* rows of an nb table handed to the validator
MaxHeaderCells == 5  \* th cells of a header row handed to the validator
MaxText == 3         \* characters of a text handed to the normaliser

P10 == <<"je", "sp", "1", "0", "sp", "gi">>        \* 제 10 기
P9 == <<"je", "9", "gi", "sp", "2", "0", "2", "3">>  \* 제9기 2023
P8 == <<"sp", "je", "sp", "8", "sp", "gi", "sp">>    \* " 제 8 기 "
NOPERIOD == <<"gi", "sp", "8">>                     \* 기 8
UNITROW == <<"(", "dan", "wi", "sp", ":", "sp", "won", ")">>   \* (단위 : 원)
JASAN == <<"ja", "san">>                            \* 자산
HYEONGEUM == <<"hyeon", "geum">>                    \* 현금
JUSEOK == <<"ju", "seok">>                          \* 주석
PAREN1234 == <<"(", "1", ",", "2", "3", "4", ")">>  \* (1,234)

NbTable(caption, r1, r2, r3, rest) ==
    [cls |-> "nb", border |-> "0", thead |-> <<>>,
     trs |-> <<<<caption>>, r1, r2, r3>> \o rest]

DataTable(thead, trs) == [cls |-> "", border |-> "1", thead |-> thead, trs |-> trs]

StdNb(caption) == NbTable(caption, <<P10>>, <<P9>>, <<P8>>, <<<<UNITROW>>>>)
StdHeader == <<<<<<>>, P10, P9, P8>>>>

\* leading spaces in front of a name
RECURSIVE Indent(_, _)
Indent(n, text) == IF n = 0 THEN text ELSE <<"sp">> \o Indent(n - 1, text)

BodyA ==
    <<<<GWAMOK, P10, P9, P8>>,
      <<JASAN, <<"1", "0", "0">>, <<"9", "0">>, <<"8", "0">>>>,
      <<Indent(2, <<"yu", "dong">> \o JASAN), <<"(", "1", ",", "2", "3", "4", ")">>, <<>>, <<"sp">>>>>>

BodyB ==
    <<<<<<"fwsp", "ga", ".", "sp">> \o HYEONGEUM \o <<"(", "ju", "1", ")">>, <<"5">>, <<"6">>, <<"7">>>>,
      <<<<"I", ".", "sp">> \o JASAN, <<"1">>, <<"2">>, <<"3">>>>>>

\* a body whose second row cannot be read
BodyBroken ==
    <<<<JASAN, <<"1">>, <<"2">>, <<"3">>>>,
      <<HYEONGEUM, Broken, <<"2">>, <<"3">>>>,
      <<Indent(1, HYEONGEUM), <<"4">>, <<"5">>, <<"6">>>>>>

\* the tables a page is made of
TableSamples ==
    {StdNb(<<"jae", "sp", "mu", "sp", "sang", "sp", "tae", "sp", "pyo">>),
     StdNb(<<"2", ".", "sp">> \o YEONGYEOL \o POGWALSONIK),
     StdNb(JAEMUJEPYO),
     StdNb(JUSEOK),
     NbTable(JAEMUSANGTAEPYO, <<P10>>, <<NOPERIOD>>, <<P8>>, <<<<UNITROW>>>>),
     NbTable(SONIK, <<P10>>, <<P9>>, <<P8>>, <<<<<<"sp">>>>, <<UNITROW>>>>),
     DataTable(StdHeader, BodyA),
     DataTable(StdHeader, BodyB),
     DataTable(<<>>, BodyA),
     DataTable(StdHeader, BodyBroken),
     [cls |-> "", border |-> "0", thead |-> <<>>, trs |-> <<>>]}

ReportYears == {<<"2", "0", "2", "4">>, <<"2", "0", "1", "5">>}

\* the rows a data table is made of
\* (a name at every indentation; a name that cleans to nothing; a row without
\* cells; a row whose first cell has no text; a name after a line break)
NameSamples == {JASAN, HYEONGEUM, GWAMOK}
RowSamples ==
    {<<Indent(n, name), <<"1", "0">>, <<>>, <<"sp">>>> : n \in 0..MaxLevel, name \in NameSamples}
        \cup {<<<<"sp", "1", "2">>, <<"5">>, <<"6">>, <<"7">>>>, <<>>, <<None, <<"7">>>>,
              <<JASAN, <<"1">>, Broken, <<"3">>>>,
              <<HYEONGEUM, PAREN1234, <<"1", ",", "2", "3", "4">>, <<"5">>>>,
              <<<<"nl", "fwsp">> \o HYEONGEUM, <<"1">>, <<"2">>, <<"3">>>>}

\* the nb tables handed to valid_standard_nb_table: n rows, the cells of rows 1-3 chosen
CellRows == {<<>>, <<P10>>, <<NOPERIOD>>, <<P10, NOPERIOD>>, <<NOPERIOD, P8>>, <<None>>}
RECURSIVE Fill(_, _)
Fill(n, row) == IF n <= 0 THEN <<>> ELSE <<row>> \o Fill(n - 1, row)
NbInputs ==
    {[kind |-> "nb",
      table |-> [cls |-> "nb", border |-> "0", thead |-> <<>>,
                 trs |-> SubSeq(<<<<JAEMUSANGTAEPYO>>, r1, r2, r3>>
                                    \o Fill(MaxTitleRows - 4, <<UNITROW>>), 1, n)]] :
        r1 \in CellRows, r2 \in CellRows, r3 \in CellRows, n \in 3..MaxTitleRows}

\* the data tables handed to valid_standard_data_table: no thead, or one header row
HeaderCells == {<<>>, <<"sp">>, P9, NOPERIOD}
HeaderRows == UNION {[1..n -> HeaderCells] : n \in 3..MaxHeaderCells}
DataInputs ==
    {[kind |-> "data", table |-> DataTable(<<h>>, BodyA)] : h \in HeaderRows}
        \cup {[kind |-> "data", table |-> DataTable(<<>>, BodyA)]}

\* the values handed to the normaliser: every text of up to MaxText characters
\* over a small alphabet, texts with the other bracket and numeral glyphs, and
\* values that are not text
TextAlphabet == {"ja", "1", "(", ")", "I", "sp", "."}
TextInputs ==
    {[kind |-> "text", text |-> t] :
        t \in UNION {[1..n -> TextAlphabet] : n \in 0..MaxText}
                \cup {<<"fw(", "ja">>, <<"ja", "fw)">>, <<"fw(", "1", "fw)", "ja">>,
                      <<"rn1", ".", "sp", "ja">>, <<"I", "V", "1", "ja">>,
                      <<"_", "X", "sp", "ja">>, <<"ja", "tab", "san", "nl">>,
                      <<"ga", ".", "fwsp", "ja", "(", "ju", "1", ",", "2", ")">>}
                \cup NonText}

\* the values handed to str_to_number
AmountInputs ==
    {[kind |-> "amount", value |-> v] :
        v \in {PyStr(t) : t \in {PAREN1234, <<"1", ",", "2", "3", "4">>, <<>>, <<"sp">>,
                                 <<"sp", "(", "5", ")", "sp">>, <<"-", "7">>, <<"(", "-", "7", ")">>,
                                 <<"(">>, <<"(", ")">>, <<"1", "sp", "2">>, <<"-">>,
                                 <<"(", "sp", "8", "sp", ")">>}}
              \cup {PyNum(0), PyNum(5), PyNone}}

\* the captions handed to the statement resolution, as they stand in the page
RECURSIVE Spaced(_)
Spaced(text) ==
    IF Len(text) <= 1 THEN text ELSE <<Head(text), "sp">> \o Spaced(Tail(text))
Decorated(text) ==
    {text, Spaced(text), <<"1", ".", "sp">> \o text, <<"rn1", ".", "sp">> \o text,
     text \o <<"sp">> \o UNIT_WON, <<"fwsp">> \o text \o <<"nl">>}
CaptionInputs ==
    {[kind |-> "caption", text |-> t] :
        t \in UNION {Decorated(c) : c \in TARGET_SJ_LIST \cup {JUSEOK}}}

-----------------------------------------------------------------------------
(* Specification of the page scan (search_right_panel) *)

Idle == <<>>

Init ==
    /\ pc = "start"
    /\ tables = <<>>
    /\ curYear \in ReportYears
    /\ dataset = <<>>
    /\ made = <<>>
    /\ lastOut = "none"
    /\ rows = Idle /\ byLevel = Idle /\ ordValue = 0 /\ accounts = Idle
    /\ input = Idle /\ verdict = Idle
    /\ paragraphs = Idle /\ idx = 0
    /\ db = Idle /\ clock = 0 /\ stored = {}
    /\ FsIdle

\* line 290: wait_for_selector('#ifrm') finds the iframe; lines 293-297
WaitIframe ==
    /\ pc = "start"
    /\ pc' = "frame"
    /\ UNCHANGED <<pageVars, rowVars, pureVars, pastVars, storeVars, fsVars>>

\* line 290: wait_for_selector('#ifrm') times out; the call stands before the
\* `try` of line 299, so the exception leaves search_right_panel
WaitTimeout ==
    /\ pc = "start"
    /\ pc' = "raised"
    /\ lastOut' = "raise"
    /\ UNCHANGED <<tables, curYear, dataset, made, rowVars, pureVars, pastVars, storeVars, fsVars>>

\* lines 300-310: the iframe body loads and the tables are listed
OpenFrame ==
    /\ pc = "frame"
    /\ pc' = "loop"
    /\ UNCHANGED <<pageVars, rowVars, pureVars, pastVars, storeVars, fsVars>>

\* lines 492-494: a failure of lines 300-308 is caught, `return []`
FrameFails ==
    /\ pc = "frame"
    /\ pc' = "done"
    /\ dataset' = <<>>
    /\ lastOut' = "return"
    /\ UNCHANGED <<tables, curYear, made, rowVars, pureVars, pastVars, storeVars, fsVars>>

\* one iteration of the loop over tables_list
HandleTable ==
    /\ pc = "loop"
    /\ Len(tables) < MaxTables
    /\ \E table \in TableSamples :
        LET prev == [byLevel |-> byLevel, ord |-> ordValue, accounts |-> accounts]
        IN  /\ tables' = Append(tables, table)
            /\ dataset' = TableStep(prev, dataset, table, curYear)
            /\ lastOut' = Outcome(dataset, table)
            /\ made' = IF Outcome(dataset, table) = "record"
                       THEN Append(made, Len(tables) + 1) ELSE made
            /\ byLevel' = ScanAfter(prev, dataset, table, curYear).byLevel
            /\ ordValue' = ScanAfter(prev, dataset, table, curYear).ord
            /\ accounts' = ScanAfter(prev, dataset, table, curYear).accounts
    /\ UNCHANGED <<pc, curYear, rows, pureVars, pastVars, storeVars, fsVars>>

\* line 487: return dataset (line 490, `return []`, when the page has no table)
Return ==
    /\ pc = "loop"
    /\ pc' = "done"
    /\ lastOut' = "return"
    /\ UNCHANGED <<tables, curYear, dataset, made, rowVars, pureVars, pastVars, storeVars, fsVars>>

Next == WaitIframe \/ WaitTimeout \/ OpenFrame \/ FrameFails \/ HandleTable \/ Return

Spec == Init /\ [][Next]_vars

-----------------------------------------------------------------------------
(* Specification of the row scan of one data table *)

InitRows ==
    /\ pc = "rows"
    /\ rows = <<>>
    /\ byLevel = ScanStart.byLevel
    /\ ordValue = ScanStart.ord
    /\ accounts = ScanStart.accounts
    /\ curYear = <<"2", "0", "2", "4">>
    /\ tables = Idle /\ dataset = Idle /\ made = Idle /\ lastOut = "none"
    /\ input = Idle /\ verdict = Idle
    /\ paragraphs = Idle /\ idx = 0
    /\ db = Idle /\ clock = 0 /\ stored = {}
    /\ FsIdle

\* one iteration of the loop over tbody_list
ScanRow ==
    /\ pc = "rows"
    /\ Len(rows) < MaxRows
    /\ \E row \in RowSamples :
        /\ ~RowRaises(row)
        /\ LET st == RowStep([byLevel |-> byLevel, ord |-> ordValue, accounts |-> accounts],
                             row, YearsOf(curYear))
           IN  /\ rows' = Append(rows, row)
               /\ byLevel' = st.byLevel
               /\ ordValue' = st.ord
               /\ accounts' = st.accounts
    /\ UNCHANGED <<pc, pageVars, pureVars, pastVars, storeVars, fsVars>>

\* an iteration that raises: control leaves the loop for the handler of line
\* 481 and line 478, which hands account_data to the record, is not reached
RowExcept ==
    /\ pc = "rows"
    /\ Len(rows) < MaxRows
    /\ \E row \in RowSamples :
        /\ RowRaises(row)
        /\ rows' = Append(rows, row)
    /\ pc' = "raised"
    /\ lastOut' = "data_raised"
    /\ UNCHANGED <<tables, curYear, dataset, made, byLevel, ordValue, accounts,
                   pureVars, pastVars, storeVars, fsVars>>

NextRows == ScanRow \/ RowExcept

SpecRows == InitRows /\ [][NextRows]_vars

-----------------------------------------------------------------------------
(* Specification of the validators and of the statement resolution *)

InitPure ==
    /\ pc = "call"
    /\ input \in NbInputs \cup DataInputs \cup CaptionInputs \cup AmountInputs
                    \cup TextInputs
    /\ verdict = Idle
    /\ tables = Idle /\ dataset = Idle /\ made = Idle /\ lastOut = "none"
    /\ curYear = Idle
    /\ rows = Idle /\ byLevel = Idle /\ ordValue = 0 /\ accounts = Idle
    /\ paragraphs = Idle /\ idx = 0
    /\ db = Idle /\ clock = 0 /\ stored = {}
    /\ FsIdle

ValidateNb ==
    /\ pc = "call" /\ input.kind = "nb"
    /\ verdict' = valid_standard_nb_table(input.table)
    /\ pc' = "done"
    /\ UNCHANGED <<input, pageVars, rowVars, pastVars, storeVars, fsVars>>

ValidateData ==
    /\ pc = "call" /\ input.kind = "data"
    /\ verdict' = valid_standard_data_table(input.table)
    /\ pc' = "done"
    /\ UNCHANGED <<input, pageVars, rowVars, pastVars, storeVars, fsVars>>

\* lines 346-367: the caption is cleaned, looked up and turned into sj_div
Resolve ==
    /\ pc = "call" /\ input.kind = "caption"
    /\ LET nb_title == clean_paragraph_text(input.text)
       IN  verdict' = IF nb_title \notin TARGET_SJ_LIST THEN None
                      ELSE SjDivCode(nb_title)
    /\ pc' = "done"
    /\ UNCHANGED <<input, pageVars, rowVars, pastVars, storeVars, fsVars>>

\* a call of str_to_number
ParseAmount ==
    /\ pc = "call" /\ input.kind = "amount"
    /\ verdict' = str_to_number(input.value)
    /\ pc' = "done"
    /\ UNCHANGED <<input, pageVars, rowVars, pastVars, storeVars, fsVars>>

\* a call of the normaliser, by each of its two names
Clean ==
    /\ pc = "call" /\ input.kind = "text"
    /\ verdict' = [account |-> clean_account_name(input.text),
                   paragraph |-> clean_paragraph_text(input.text)]
    /\ pc' = "done"
    /\ UNCHANGED <<input, pageVars, rowVars, pastVars, storeVars, fsVars>>

NextPure == ValidateNb \/ ValidateData \/ Resolve \/ ParseAmount \/ Clean

SpecPure == InitPure /\ [][NextPure]_vars

-----------------------------------------------------------------------------
(* Storage of the extracted records: app/src/past_version_crawler.py,         *)
(* left_panel_slider, lines 504-530 (and the same statements at 551-583).     *)
(* The database is the list of its documents; `coll` is the collection, named *)
(* by the record's sj_div.                                                    *)

\* variant: the query without bsns_year and rcept_no
MatchesAnyFiling(doc, data) ==
    /\ doc.coll = data.sj_div
    /\ doc.corp_code = data.corp_code
    /\ doc.stock_code = data.stock_code

\* specific_collection.find_one(query) / update_one(query, ...): the documents
\* of the collection data["sj_div"] that the query of lines 510-515 selects
Matches(doc, data) ==
    /\ doc.coll = data.sj_div
    /\ doc.corp_code = data.corp_code
    /\ doc.stock_code = data.stock_code
    /\ doc.bsns_year = data.bsns_year
    /\ doc.rcept_no = data.rcept_no

\* find_one: the first document the query selects, 0 when there is none
FindOne(docs, data) ==
    IF \E i \in 1..Len(docs) : Matches(docs[i], data)
    THEN CHOOSE i \in 1..Len(docs) :
            /\ Matches(docs[i], data)
            /\ \A j \in 1..(i - 1) : ~Matches(docs[j], data)
    ELSE 0

\* update_one(query, {"$set": data}) with data["updated_at"] = now
UpdateOne(docs, i, data, now) ==
    [docs EXCEPT ![i] = [@ EXCEPT !.corp_code = data.corp_code,
                                  !.stock_code = data.stock_code,
                                  !.bsns_year = data.bsns_year,
                                  !.rcept_no = data.rcept_no,
                                  !.sj_div = data.sj_div,
                                  !.data = data.data,
                                  !.updated_at = now]]

\* insert_one(data) with data["created_at"] = now
InsertOne(docs, data, now) ==
    Append(docs, [coll |-> data.sj_div,
                  corp_code |-> data.corp_code,
                  stock_code |-> data.stock_code,
                  bsns_year |-> data.bsns_year,
                  rcept_no |-> data.rcept_no,
                  sj_div |-> data.sj_div,
                  data |-> data.data,
                  created_at |-> now,
                  updated_at |-> 0])

\* lines 517-528: the existing document is updated, or a new one inserted
StoreStep(docs, data, now) ==
    IF FindOne(docs, data) > 0
    THEN UpdateOne(docs, FindOne(docs, data), data, now)
    ELSE InsertOne(docs, data, now)

\* what a stored document is identified by
KeyOf(d) == <<d.corp_code, d.stock_code, d.bsns_year, d.rcept_no, d.sj_div>>

MaxStores == 3       \* records handed to the store loop

\* the records handed to the store loop: two companies, two filings, two
\* statement codes, two extractions of the same statement
Companies == {[corp_code |-> "00126380", stock_code |-> "005930"],
              [corp_code |-> "00164779", stock_code |-> "000660"]}
Filings == {[bsns_year |-> <<"2", "0", "2", "3">>, rcept_no |-> "20230307000542"],
            [bsns_year |-> <<"2", "0", "2", "4">>, rcept_no |-> "20240312000736"]}
StoreSamples ==
    {[corp_code |-> c.corp_code, stock_code |-> c.stock_code,
      bsns_year |-> f.bsns_year, rcept_no |-> f.rcept_no,
      sj_div |-> sj, data |-> accs] :
        c \in Companies, f \in Filings,
        sj \in {<<"O", "F", "S", "_", "B", "S">>, <<"C", "F", "S", "_", "B", "S">>},
        accs \in {<<>>, <<JASAN>>}}

InitStore ==
    /\ pc = "store"
    /\ db = <<>>
    /\ clock = 0
    /\ stored = {}
    /\ input = Idle /\ verdict = Idle
    /\ tables = Idle /\ curYear = Idle /\ dataset = Idle /\ made = Idle
    /\ lastOut = "none"
    /\ rows = Idle /\ byLevel = Idle /\ ordValue = 0 /\ accounts = Idle
    /\ paragraphs = Idle /\ idx = 0
    /\ FsIdle

\* one iteration of `for data in dataset` (lines 504-528)
StoreRecord ==
    /\ pc = "store"
    /\ clock < MaxStores
    /\ \E data \in StoreSamples :
        /\ input' = data
        /\ db' = StoreStep(db, data, clock + 1)
        /\ stored' = stored \cup {KeyOf(data)}
        /\ lastOut' = IF FindOne(db, data) > 0 THEN "updated" ELSE "inserted"
    /\ clock' = clock + 1
    /\ UNCHANGED <<pc, tables, curYear, dataset, made, verdict, rowVars, pastVars, fsVars>>

\* lines 529-530: a failure of the database call is caught and logged; nothing
\* is stored for the record
StoreFails ==
    /\ pc = "store"
    /\ clock < MaxStores
    /\ \E data \in StoreSamples : input' = data
    /\ clock' = clock + 1
    /\ lastOut' = "store_failed"
    /\ UNCHANGED <<pc, db, stored, tables, curYear, dataset, made, verdict, rowVars,
                   pastVars, fsVars>>

NextStore == StoreRecord \/ StoreFails

SpecStore == InitStore /\ [][NextStore]_vars

-----------------------------------------------------------------------------
(* The earlier page extraction: app/src/past_version_crawler.py,              *)
(* crawling_dataset, lines 180-427.  A page is the texts of its p elements    *)
(* and its tables; a cell is its textContent, and WebElement.text is that     *)
(* text without the white space around it.  The name cell of a row holds its  *)
(* text in a p element (line 360).                                            *)

\* WebElement.text
TextOf(cell) == IF cell = None THEN <<>> ELSE Strip(cell)

\* the titles looked for in the p elements (line 190)
PARAGRAPH_TITLES ==
    {JAEMUSANGTAEPYO, SONIK, POGWALSONIK,
     YEONGYEOL \o JAEMUSANGTAEPYO, YEONGYEOL \o SONIK, YEONGYEOL \o POGWALSONIK}

\* lines 187-191: the titles found in the p elements, each once, in page order
RECURSIVE SjDivListFrom(_, _, _)
SjDivListFrom(ps, k, sj_div_list) ==
    IF k > Len(ps) THEN sj_div_list
    ELSE LET ptext == clean_paragraph_text(TextOf(ps[k]))
         IN  SjDivListFrom(ps, k + 1,
                 IF ptext \in PARAGRAPH_TITLES
                       /\ \A m \in 1..Len(sj_div_list) : sj_div_list[m] # ptext
                 THEN Append(sj_div_list, ptext) ELSE sj_div_list)
SjDivList(ps) == SjDivListFrom(ps, 1, <<>>)

\* lines 197-198
IsNb(table) == table.cls = "nb"
IsData(table) == table.border = "1"
NbTables(ts) == SelectSeq(ts, IsNb)
DataTables(ts) == SelectSeq(ts, IsData)

\* the td cells of a table, row after row
RECURSIVE CellsFrom(_, _)
CellsFrom(trs, k) == IF k > Len(trs) THEN <<>> ELSE trs[k] \o CellsFrom(trs, k + 1)

IsTitleCell(cell) == clean_account_name(TextOf(cell)) \in TARGET_SJ_LIST

\* lines 207-224: an nb table is relevant when one of its cells is a title
HasTitle(table) == SelectSeq(CellsFrom(table.trs, 1), IsTitleCell) # <<>>
RelevantNbTables(ts) == SelectSeq(NbTables(ts), HasTitle)

Min3(a, b, c) == IF a <= b /\ a <= c THEN a ELSE IF b <= c THEN b ELSE c

\* line 227
ActualFsCount(ps, ts) ==
    Min3(Len(SjDivList(ps)), Len(RelevantNbTables(ts)), Len(DataTables(ts)))

UNKNOWN_UNIT == <<"al", "sp", "su", "sp", "eops", "eum">>   \* 알 수 없음

\* lines 256-259: the matched unit, or 알 수 없음
UnitOr(unit) == IF unit = None THEN UNKNOWN_UNIT ELSE unit

\* lines 246-262: the unit is read from the first cell of the last row
PastUnit(table) == UnitOr(UnitFrom(TextOf(table.trs[Len(table.trs)][1]), 1))

\* line 247: last_row.find_element(By.TAG_NAME, "td") raises when the last row
\* has no td
RecordRaises(table) == Len(table.trs[Len(table.trs)]) = 0

\* lines 263-285: every title cell sets sj_div, so the last one stands
LastOf(seq) == seq[Len(seq)]
PastSjDiv(table) ==
    SjDivCode(clean_account_name(TextOf(
        LastOf(SelectSeq(CellsFrom(table.trs, 1), IsTitleCell)))))

\* lines 230-306: the record made from a relevant nb table.  Its sj_div is not
\* empty, so neither the fallback of lines 287-301 nor the `continue` of line
\* 303 is taken.
PastRecord(table, bsns_year) ==
    [bsns_year |-> bsns_year,
     sj_div |-> PastSjDiv(table),
     unit |-> PastUnit(table),
     data |-> <<>>]

\* lines 315-335: the index (from 0) of the first cell of a row that reads 주석,
\* -1 when there is none; a th is cleaned before the test (line 322), a td is
\* taken as it is (line 333)
JUSEOK_TH == <<"ju", "seok">>   \* 주석
IsNoiseTh(cell) == clean_account_name(TextOf(cell)) = JUSEOK_TH
IsNoiseTd(cell) == TextOf(cell) = JUSEOK_TH
RECURSIVE FirstNoise(_, _, _)
FirstNoise(cells, c, kind) ==
    IF c > Len(cells) THEN -1
    ELSE IF (kind = "th" /\ IsNoiseTh(cells[c])) \/ (kind = "td" /\ IsNoiseTd(cells[c]))
    THEN c - 1
    ELSE FirstNoise(cells, c + 1, kind)

\* each header row with such a cell sets noise_col_idx anew
KeepOr(found, noise_col_idx) == IF found # -1 THEN found ELSE noise_col_idx
RECURSIVE HeaderNoiseFrom(_, _, _)
HeaderNoiseFrom(thead, k, noise_col_idx) ==
    IF k > Len(thead) THEN noise_col_idx
    ELSE HeaderNoiseFrom(thead, k + 1, KeepOr(FirstNoise(thead[k], 1, "th"), noise_col_idx))

HeaderNoise(table) == HeaderNoiseFrom(table.thead, 1, -1)
FromHeader(table) == HeaderNoise(table) # -1

\* lines 329-335: without a header hit, the cells of the first body row are
\* searched for the text 주석
NoiseColIdx(table) ==
    IF FromHeader(table) THEN HeaderNoise(table)
    ELSE FirstNoise(table.trs[1], 1, "td")

\* lines 390-392: the text of an amount cell, "0" when it is empty
AmountText(text) == IF text = <<>> THEN <<"0">> ELSE text

\* lines 386-395: the cells after the name cell, the 주석 column left out; each
\* gives one entry, labelled curr_year, which then goes down by one
RECURSIVE PastAmountsFrom(_, _, _, _)
PastAmountsFrom(row, col_idx, noise_col_idx, curr_year) ==
    IF col_idx + 1 > Len(row) THEN <<>>
    ELSE IF col_idx = noise_col_idx
    THEN PastAmountsFrom(row, col_idx + 1, noise_col_idx, curr_year)
    ELSE <<[year |-> StrOf(curr_year), amount |-> AmountText(TextOf(row[col_idx + 1]))]>>
             \o PastAmountsFrom(row, col_idx + 1, noise_col_idx, curr_year - 1)

NotZero(entry) == entry.amount # <<"0">>

\* lines 400-413: more than three entries are cut to the first three years;
\* the values are those that are not "0", filled up with "0"
Refill(amounts, values) ==
    [k \in 1..3 |->
        [year |-> amounts[k].year,
         amount |-> IF k <= Len(values) THEN values[k].amount ELSE <<"0">>]]
ThreeYears(amounts) ==
    IF Len(amounts) <= 3 THEN amounts ELSE Refill(amounts, SelectSeq(amounts, NotZero))

\* lines 397-423: the 과목 row is left out, every other row is appended
PastAppend(st, raw_account_name, account_level, curr_account_name, map, amounts) ==
    IF curr_account_name = GWAMOK THEN [st EXCEPT !.byLevel = map]
    ELSE [byLevel |-> map,
          ord |-> st.ord + 1,
          accounts |->
              Append(st.accounts,
                     [ord_value |-> st.ord,
                      raw_account_name |-> raw_account_name,
                      account_name |-> curr_account_name,
                      amounts |-> ThreeYears(amounts),
                      account_level |-> account_level,
                      ancestors |-> Ancestors(map, account_level)])]

\* lines 365-378: level, name and level map from the raw name
PastNamed(st, raw_account_name, account_level, curr_account_name, amounts) ==
    PastAppend(st, raw_account_name, account_level, curr_account_name,
               PutLevel(st.byLevel, account_level, curr_account_name), amounts)

\* lines 342-346 and 415-423: a row without cells keeps the initial values
PastUnnamed(st) ==
    [st EXCEPT !.ord = @ + 1,
               !.accounts = Append(@, [ord_value |-> st.ord,
                                       raw_account_name |-> <<>>,
                                       account_name |-> <<>>,
                                       amounts |-> <<>>,
                                       account_level |-> 0,
                                       ancestors |-> <<>>])]

PastRead(st, raw_account_name, amounts) ==
    PastNamed(st, raw_account_name, LeadingSpaces(raw_account_name),
              clean_account_name(clean_account_name(raw_account_name)), amounts)

\* One iteration of `for row_idx, tr in enumerate(trs)`, lines 341-423.
\* st = [byLevel, ord, accounts]; row = the texts of the row's td cells.
PastRowStep(st, row, row_idx, noise_col_idx, from_header, bsns_year) ==
    IF row_idx = 0 /\ noise_col_idx # -1 /\ ~from_header THEN st
    ELSE IF Len(row) = 0 THEN PastUnnamed(st)
    ELSE PastRead(st, RawName(row[1]),
                  PastAmountsFrom(row, 1, noise_col_idx, IntOf(bsns_year)))

RECURSIVE PastScanFrom(_, _, _, _, _, _)
PastScanFrom(st, trs, j, noise_col_idx, from_header, bsns_year) ==
    IF j > Len(trs) THEN st
    ELSE PastScanFrom(PastRowStep(st, trs[j], j - 1, noise_col_idx, from_header, bsns_year),
                      trs, j + 1, noise_col_idx, from_header, bsns_year)

\* lines 308-423: the accounts read from a data table
PastAccountData(table, bsns_year) ==
    PastScanFrom(ScanStart, table.trs, 1, NoiseColIdx(table), FromHeader(table),
                 bsns_year).accounts

\* whether the reading of a data table raises: `trs[0]` on a body without rows
\* (line 330), or the read of an amount cell that raises (line 390; the cells
\* that cannot be read stand in amount columns)
FillRaises(table) ==
    \/ ~FromHeader(table) /\ Len(table.trs) = 0
    \/ \E j \in 1..Len(table.trs) : \E k \in 1..Len(table.trs[j]) :
          table.trs[j][k] = Broken

MaxPastTables == 3   \* tables on one page of the earlier extraction

\* a title table whose last row has no td; a data table with a 주석 column;
\* a data table whose body has no row
NbNoUnitCell == NbTable(JAEMUSANGTAEPYO, <<P10>>, <<P9>>, <<P8>>, <<<<>>>>)
BodyNoted ==
    <<<<GWAMOK, JUSEOK, P10, P9, P8>>,
      <<JASAN, <<"4">>, <<"1", "0", "0">>, <<>>, <<"8", "0">>>>,
      <<Indent(1, HYEONGEUM), <<>>, <<>>, <<>>, <<>>>>>>
PastTableSamples ==
    {StdNb(JAEMUSANGTAEPYO),
     StdNb(<<"2", ".", "sp">> \o YEONGYEOL \o POGWALSONIK),
     StdNb(JUSEOK),
     NbNoUnitCell,
     DataTable(StdHeader, BodyA),
     DataTable(StdHeader, BodyNoted),
     DataTable(StdHeader, BodyBroken),
     DataTable(StdHeader, <<>>)}
PastPages == UNION {[1..n -> PastTableSamples] : n \in 0..MaxPastTables}
ParagraphSamples ==
    {<<JAEMUSANGTAEPYO, <<"sp">> \o YEONGYEOL \o POGWALSONIK, JAEMUSANGTAEPYO>>,
     <<JUSEOK, JAEMUSANGTAEPYO>>}

InitPast ==
    /\ pc = "collect"
    /\ paragraphs \in ParagraphSamples
    /\ tables \in PastPages
    /\ curYear = <<"2", "0", "2", "4">>
    /\ dataset = <<>>
    /\ idx = 0
    /\ made = Idle /\ lastOut = "none"
    /\ rows = Idle /\ byLevel = Idle /\ ordValue = 0 /\ accounts = Idle
    /\ input = Idle /\ verdict = Idle
    /\ db = Idle /\ clock = 0 /\ stored = {}
    /\ FsIdle

\* lines 181-229: the page is read and the number of statements fixed
PastCollect ==
    /\ pc = "collect"
    /\ pc' = "records"
    /\ UNCHANGED <<pageVars, rowVars, pureVars, pastVars, storeVars, fsVars>>

\* one iteration of `for idx in range(actual_fs_count)`, lines 229-306
PastRecordStep ==
    /\ pc = "records"
    /\ idx < ActualFsCount(paragraphs, tables)
    /\ ~RecordRaises(RelevantNbTables(tables)[idx + 1])
    /\ dataset' = Append(dataset, PastRecord(RelevantNbTables(tables)[idx + 1], curYear))
    /\ idx' = idx + 1
    /\ lastOut' = "record"
    /\ UNCHANGED <<pc, tables, curYear, made, paragraphs, rowVars, pureVars, storeVars, fsVars>>

\* the first loop ends, the second begins (line 308)
PastRecordsDone ==
    /\ pc = "records"
    /\ idx = ActualFsCount(paragraphs, tables)
    /\ pc' = "fill"
    /\ idx' = 0
    /\ UNCHANGED <<pageVars, paragraphs, rowVars, pureVars, storeVars, fsVars>>

\* one iteration of `for data_idx, data in enumerate(dataset)`, lines 308-423
PastFillStep ==
    /\ pc = "fill"
    /\ idx < Len(dataset)
    /\ ~FillRaises(DataTables(tables)[idx + 1])
    /\ dataset' = [dataset EXCEPT
                      ![idx + 1].data = PastAccountData(DataTables(tables)[idx + 1], curYear)]
    /\ idx' = idx + 1
    /\ lastOut' = "data_merged"
    /\ UNCHANGED <<pc, tables, curYear, made, paragraphs, rowVars, pureVars, storeVars, fsVars>>

\* line 425: return dataset
PastReturn ==
    /\ pc = "fill"
    /\ idx = Len(dataset)
    /\ pc' = "done"
    /\ lastOut' = "return"
    /\ UNCHANGED <<tables, curYear, dataset, made, pastVars, rowVars, pureVars, storeVars, fsVars>>

\* lines 427-429: an exception raised while a table is read, in either loop,
\* ends in the handler of the whole function, `return []`
PastExcept ==
    /\ \/ /\ pc = "records"
          /\ idx < ActualFsCount(paragraphs, tables)
          /\ RecordRaises(RelevantNbTables(tables)[idx + 1])
       \/ /\ pc = "fill"
          /\ idx < Len(dataset)
          /\ FillRaises(DataTables(tables)[idx + 1])
    /\ dataset' = <<>>
    /\ pc' = "done"
    /\ lastOut' = "table_raised"
    /\ UNCHANGED <<tables, curYear, made, pastVars, rowVars, pureVars, storeVars, fsVars>>

\* lines 183-184: the wait for the page body times out; same handler
PastTimeout ==
    /\ pc = "collect"
    /\ dataset' = <<>>
    /\ pc' = "done"
    /\ lastOut' = "return"
    /\ UNCHANGED <<tables, curYear, made, pastVars, rowVars, pureVars, storeVars, fsVars>>

NextPast ==
    PastCollect \/ PastTimeout \/ PastRecordStep \/ PastRecordsDone \/ PastFillStep
        \/ PastReturn \/ PastExcept

SpecPast == InitPast /\ [][NextPast]_vars

-----------------------------------------------------------------------------
(* Specification of the row scan of one data table in the earlier extraction, *)
(* past_version_crawler.py lines 309-423.  `input` is the data table, `rows`  *)
(* the rows the loop has gone through; noise_col_idx and from_header are set  *)
(* once, before the loop, from the table.                                     *)

\* lines 348-351: the first row is passed over unread when the 주석 cell was
\* found in it
PastSkipped(row_idx, noise_col_idx, from_header) ==
    row_idx = 0 /\ noise_col_idx # -1 /\ ~from_header

\* line 358: the read of the name cell fails (handled at lines 380-384)
NameUnreadable(row) == Len(row) >= 1 /\ row[1] = Broken

\* line 390: the read of an amount cell fails; the cell of the 주석 column is
\* passed over before it is read (lines 387-388)
AmountUnreadable(row, noise_col_idx) ==
    \E k \in 2..Len(row) : k - 1 # noise_col_idx /\ row[k] = Broken

\* the header rows of a data table: no thead, a thead without and with 주석
PastHeaders == {<<>>, StdHeader, <<<<GWAMOK, JUSEOK, P10, P9, P8>>>>}

\* the rows of a data table of the earlier extraction
PastRowSamples ==
    {<<GWAMOK, JUSEOK, P10, P9, P8>>,
     <<Indent(1, GWAMOK), P10, P9, P8>>,
     <<JASAN, <<"4">>, <<"1", "0", "0">>, <<>>, <<"8", "0">>>>,
     <<Indent(2, HYEONGEUM), <<>>, <<"5">>, <<"6">>, <<"7">>>>,
     <<<<"fwsp">> \o JASAN, <<>>, <<>>, <<"5">>, <<"6">>, <<"7">>>>,
     <<<<"I", "V", "1">>, <<"1">>, <<"2">>>>,
     <<>>,
     <<HYEONGEUM, Broken, <<"1">>, Broken>>,
     <<Broken, <<"1">>>>}

MaxPastRows == 3   \* rows of one data table of the earlier extraction

PastDataTables ==
    {DataTable(thead, trs) :
        thead \in PastHeaders,
        trs \in UNION {[1..n -> PastRowSamples] : n \in 0..MaxPastRows}}

InitPastRows ==
    /\ pc = "noise"
    /\ input \in PastDataTables
    /\ rows = <<>>
    /\ byLevel = Idle /\ ordValue = 0 /\ accounts = Idle
    /\ curYear = <<"2", "0", "2", "4">>
    /\ tables = Idle /\ dataset = Idle /\ made = Idle /\ lastOut = "none"
    /\ verdict = Idle
    /\ paragraphs = Idle /\ idx = 0
    /\ db = Idle /\ clock = 0 /\ stored = {}
    /\ FsIdle

\* lines 313-339: the 주석 column is looked for, then the scan state is set
PastFindNoise ==
    /\ pc = "noise"
    /\ FromHeader(input) \/ Len(input.trs) > 0
    /\ byLevel' = ScanStart.byLevel
    /\ ordValue' = ScanStart.ord
    /\ accounts' = ScanStart.accounts
    /\ pc' = "pastrows"
    /\ lastOut' = "noise"
    /\ UNCHANGED <<tables, curYear, dataset, made, rows, pureVars, pastVars, storeVars, fsVars>>

\* line 330: `trs[0]` on a body without rows
PastNoiseRaises ==
    /\ pc = "noise"
    /\ ~FromHeader(input) /\ Len(input.trs) = 0
    /\ pc' = "raised"
    /\ lastOut' = "table_raised"
    /\ UNCHANGED <<tables, curYear, dataset, made, rowVars, pureVars, pastVars, storeVars, fsVars>>

\* one iteration of `for row_idx, tr in enumerate(trs)` that reads its cells,
\* or passes the row over
PastScanRow ==
    /\ pc = "pastrows"
    /\ Len(rows) < Len(input.trs)
    /\ \/ PastSkipped(Len(rows), NoiseColIdx(input), FromHeader(input))
       \/ /\ ~NameUnreadable(input.trs[Len(rows) + 1])
          /\ ~AmountUnreadable(input.trs[Len(rows) + 1], NoiseColIdx(input))
    /\ LET st == PastRowStep([byLevel |-> byLevel, ord |-> ordValue, accounts |-> accounts],
                             input.trs[Len(rows) + 1], Len(rows),
                             NoiseColIdx(input), FromHeader(input), curYear)
       IN  /\ byLevel' = st.byLevel
           /\ ordValue' = st.ord
           /\ accounts' = st.accounts
    /\ rows' = Append(rows, input.trs[Len(rows) + 1])
    /\ lastOut' = "row"
    /\ UNCHANGED <<pc, tables, curYear, dataset, made, pureVars, pastVars, storeVars, fsVars>>

\* lines 380-384: the read of the name cell failed, the handler's own read of
\* the cell (line 382) went well: `break`, and the row is appended as it stands
PastRowBreak ==
    /\ pc = "pastrows"
    /\ Len(rows) < Len(input.trs)
    /\ ~PastSkipped(Len(rows), NoiseColIdx(input), FromHeader(input))
    /\ NameUnreadable(input.trs[Len(rows) + 1])
    /\ LET st == PastUnnamed([byLevel |-> byLevel, ord |-> ordValue, accounts |-> accounts])
       IN  /\ byLevel' = st.byLevel
           /\ ordValue' = st.ord
           /\ accounts' = st.accounts
    /\ rows' = Append(rows, input.trs[Len(rows) + 1])
    /\ lastOut' = "row_break"
    /\ UNCHANGED <<pc, tables, curYear, dataset, made, pureVars, pastVars, storeVars, fsVars>>

\* the handler's read of the cell fails too (line 382), or the read of an
\* amount cell fails (line 390): the exception leaves the loop for line 427
PastRowExcept ==
    /\ pc = "pastrows"
    /\ Len(rows) < Len(input.trs)
    /\ ~PastSkipped(Len(rows), NoiseColIdx(input), FromHeader(input))
    /\ \/ NameUnreadable(input.trs[Len(rows) + 1])
       \/ AmountUnreadable(input.trs[Len(rows) + 1], NoiseColIdx(input))
    /\ rows' = Append(rows, input.trs[Len(rows) + 1])
    /\ pc' = "raised"
    /\ lastOut' = "table_raised"
    /\ UNCHANGED <<tables, curYear, dataset, made, byLevel, ordValue, accounts,
                   pureVars, pastVars, storeVars, fsVars>>

\* the loop is through
PastRowsDone ==
    /\ pc = "pastrows"
    /\ Len(rows) = Len(input.trs)
    /\ pc' = "done"
    /\ lastOut' = "return"
    /\ UNCHANGED <<tables, curYear, dataset, made, rowVars, pureVars, pastVars, storeVars, fsVars>>

NextPastRows ==
    PastFindNoise \/ PastNoiseRaises \/ PastScanRow \/ PastRowBreak \/ PastRowExcept
        \/ PastRowsDone

SpecPastRows == InitPastRows /\ [][NextPastRows]_vars

-----------------------------------------------------------------------------
(* The run over one company: app/src/past_version_crawler.py, get_corp_fs,    *)
(* lines 648-962, with _create_driver (594-615) and _clean_up_driver          *)
(* (617-646).  Drivers are numbered in the order _create_driver returns them. *)
(* The writes to the COMPANY collection (lines 752-771 and 779-832) are       *)
(* caught where they fail and touch neither the driver nor the values         *)
(* returned; they are left out.                                               *)

\* the keys of fs_collection_results (lines 652-659)
FS_CODES ==
    {<<"C", "F", "S", "_", "B", "S">>, <<"C", "F", "S", "_", "I", "S">>,
     <<"C", "F", "S", "_", "C", "I", "S">>, <<"O", "F", "S", "_", "B", "S">>,
     <<"O", "F", "S", "_", "I", "S">>, <<"O", "F", "S", "_", "C", "I", "S">>}

\* lines 652-659
NoResults == [code \in FS_CODES |-> [status |-> "not_found", data_count |-> 0]]

\* variant: the guard of line 619 turned round, nothing is closed
clean_up_driver_skips(d, done) == [driver |-> d, cleaned |-> done]

\* _clean_up_driver, lines 617-646: a driver that is set is closed and quit
\* (a failure of either call is caught and logged) and the attribute is set
\* to None; without a driver nothing is done
clean_up_driver(d, done) ==
    IF d # NoDriver THEN [driver |-> NoDriver, cleaned |-> done \cup {d}]
    ELSE [driver |-> d, cleaned |-> done]

\* lines 917-921: every record whose sj_div is a key marks it collected and
\* adds one to its count
Tally(results, data) ==
    [code \in FS_CODES |->
        IF \E k \in 1..Len(data) : data[k].sj_div = code
        THEN [status |-> "collected",
              data_count |-> results[code].data_count
                                 + Cardinality({k \in 1..Len(data) : data[k].sj_div = code})]
        ELSE results[code]]

\* lines 945-951: the values returned after the loop over the reports
FinalResult(collected, results) ==
    IF Len(collected) > 0
    THEN [success |-> TRUE, data |-> collected, summary |-> results]
    ELSE [success |-> FALSE, data |-> <<>>, summary |-> results]

\* the values of the other return statements (lines 688, 769, 772, 777, 955)
Failure(results) == [success |-> FALSE, data |-> <<>>, summary |-> results]

MaxUrls == 3   \* reports found for one company

\* what left_panel_slider returns for one report: the records of its pages,
\* known by their sj_div (the last one is not a key of fs_collection_results)
Rec(code) == [sj_div |-> code]
SliderSamples ==
    {<<>>,
     <<Rec(<<"O", "F", "S", "_", "B", "S">>)>>,
     <<Rec(<<"C", "F", "S", "_", "B", "S">>), Rec(<<"C", "F", "S", "_", "B", "S">>),
       Rec(<<"C", "F", "S", "_", "C", "I", "S">>)>>,
     <<Rec(<<"O", "F", "S", "_">> \o JAEMUJEPYO)>>}

InitFs ==
    /\ pc = "fs_start"
    /\ driver = NoDriver /\ created = 0 /\ cleaned = {}
    /\ urlsLeft = 0
    /\ collected_data = <<>>
    /\ fs_collection_results = NoResults
    /\ result = <<>>
    /\ tables = Idle /\ curYear = Idle /\ dataset = Idle /\ made = Idle /\ lastOut = "none"
    /\ rows = Idle /\ byLevel = Idle /\ ordValue = 0 /\ accounts = Idle
    /\ input = Idle /\ verdict = Idle
    /\ paragraphs = Idle /\ idx = 0
    /\ db = Idle /\ clock = 0 /\ stored = {}

\* the `finally` of lines 957-959 runs on every return
FsReturns(value) ==
    /\ result' = value
    /\ driver' = clean_up_driver(driver, cleaned).driver
    /\ cleaned' = clean_up_driver(driver, cleaned).cleaned
    /\ pc' = "fs_done"

\* lines 686-688: no stock code, `return False, ...`
FsNoStockCode ==
    /\ pc = "fs_start"
    /\ FsReturns(Failure(fs_collection_results))
    /\ lastOut' = "no_stock_code"
    /\ UNCHANGED <<tables, curYear, dataset, made, rowVars, pureVars, pastVars, storeVars,
                   created, urlsLeft, collected_data, fs_collection_results>>

\* line 661: search_company raises; handler of lines 953-955
FsLookupRaises ==
    /\ pc = "fs_start"
    /\ FsReturns(Failure(fs_collection_results))
    /\ lastOut' = "raised"
    /\ UNCHANGED <<tables, curYear, dataset, made, rowVars, pureVars, pastVars, storeVars,
                   created, urlsLeft, collected_data, fs_collection_results>>

\* line 694: self.driver = self._create_driver()
FsCreateInitial ==
    /\ pc = "fs_start"
    /\ created' = created + 1
    /\ driver' = created + 1
    /\ pc' = "fs_search"
    /\ lastOut' = "created"
    /\ UNCHANGED <<tables, curYear, dataset, made, rowVars, pureVars, pastVars, storeVars,
                   cleaned, urlsLeft, collected_data, fs_collection_results, result>>

\* line 694: _create_driver raises and nothing is assigned; handler of lines
\* 774-777
FsCreateInitialFails ==
    /\ pc = "fs_start"
    /\ FsReturns(Failure(fs_collection_results))
    /\ lastOut' = "create_failed"
    /\ UNCHANGED <<tables, curYear, dataset, made, rowVars, pureVars, pastVars, storeVars,
                   created, urlsLeft, collected_data, fs_collection_results>>

\* lines 695-746: the search or the listing raises; the handler of lines 774-777
\* cleans up and returns
FsSearchFails ==
    /\ pc = "fs_search"
    /\ FsReturns(Failure(fs_collection_results))
    /\ lastOut' = "search_failed"
    /\ UNCHANGED <<tables, curYear, dataset, made, rowVars, pureVars, pastVars, storeVars,
                   created, urlsLeft, collected_data, fs_collection_results>>

\* lines 743-771: get_fs_list returns no report; the driver is cleaned up (line
\* 749) and the run returns (line 768, or 771 when the database write fails)
FsNoReports ==
    /\ pc = "fs_search"
    /\ FsReturns(Failure(fs_collection_results))
    /\ lastOut' = "no_reports"
    /\ UNCHANGED <<tables, curYear, dataset, made, rowVars, pureVars, pastVars, storeVars,
                   created, urlsLeft, collected_data, fs_collection_results>>

\* lines 743-749: get_fs_list returns n reports, the driver of the search is
\* cleaned up
FsListed ==
    /\ pc = "fs_search"
    /\ \E n \in 1..MaxUrls : urlsLeft' = n
    /\ driver' = clean_up_driver(driver, cleaned).driver
    /\ cleaned' = clean_up_driver(driver, cleaned).cleaned
    /\ pc' = "fs_loop"
    /\ lastOut' = "listed"
    /\ UNCHANGED <<tables, curYear, dataset, made, rowVars, pureVars, pastVars, storeVars,
                   created, collected_data, fs_collection_results, result>>

\* lines 836-841: a statement of the loop body in front of its `try` raises
\* (fs_url.split on an href that get_attribute returned as None); the handler
\* is that of the whole function, lines 953-955
FsLoopRaises ==
    /\ pc = "fs_loop" /\ urlsLeft > 0
    /\ FsReturns(Failure(fs_collection_results))
    /\ lastOut' = "raised"
    /\ UNCHANGED <<tables, curYear, dataset, made, rowVars, pureVars, pastVars, storeVars,
                   created, urlsLeft, collected_data, fs_collection_results>>

\* line 845: a driver of its own for the report
FsOpenReport ==
    /\ pc = "fs_loop" /\ urlsLeft > 0
    /\ created' = created + 1
    /\ driver' = created + 1
    /\ pc' = "fs_report"
    /\ lastOut' = "created"
    /\ UNCHANGED <<tables, curYear, dataset, made, rowVars, pureVars, pastVars, storeVars,
                   cleaned, urlsLeft, collected_data, fs_collection_results, result>>

\* line 845: _create_driver raises; handler of line 928, `finally` of line 931
FsOpenReportFails ==
    /\ pc = "fs_loop" /\ urlsLeft > 0
    /\ driver' = clean_up_driver(driver, cleaned).driver
    /\ cleaned' = clean_up_driver(driver, cleaned).cleaned
    /\ urlsLeft' = urlsLeft - 1
    /\ lastOut' = "create_failed"
    /\ UNCHANGED <<pc, tables, curYear, dataset, made, rowVars, pureVars, pastVars,
                   storeVars, created, collected_data, fs_collection_results, result>>

\* lines 846-929: the page of the report cannot be opened (handler of line
\* 928) or left_panel_slider raises (handler of line 925); `finally`
FsReportFails ==
    /\ pc = "fs_report"
    /\ driver' = clean_up_driver(driver, cleaned).driver
    /\ cleaned' = clean_up_driver(driver, cleaned).cleaned
    /\ urlsLeft' = urlsLeft - 1
    /\ pc' = "fs_loop"
    /\ lastOut' = "report_failed"
    /\ UNCHANGED <<tables, curYear, dataset, made, rowVars, pureVars, pastVars, storeVars,
                   created, collected_data, fs_collection_results, result>>

\* lines 912-923: left_panel_slider returns the records of the report; `finally`
FsCollect ==
    /\ pc = "fs_report"
    /\ \E data \in SliderSamples :
        /\ collected_data' = collected_data \o data
        /\ fs_collection_results' = Tally(fs_collection_results, data)
    /\ driver' = clean_up_driver(driver, cleaned).driver
    /\ cleaned' = clean_up_driver(driver, cleaned).cleaned
    /\ urlsLeft' = urlsLeft - 1
    /\ pc' = "fs_loop"
    /\ lastOut' = "collected"
    /\ UNCHANGED <<tables, curYear, dataset, made, rowVars, pureVars, pastVars, storeVars,
                   created, result>>

\* lines 945-951: the loop is through
FsReturn ==
    /\ pc = "fs_loop" /\ urlsLeft = 0
    /\ FsReturns(FinalResult(collected_data, fs_collection_results))
    /\ lastOut' = "return"
    /\ UNCHANGED <<tables, curYear, dataset, made, rowVars, pureVars, pastVars, storeVars,
                   created, urlsLeft, collected_data, fs_collection_results>>

NextFs ==
    FsNoStockCode \/ FsLookupRaises \/ FsCreateInitial \/ FsCreateInitialFails
        \/ FsSearchFails \/ FsNoReports \/ FsListed \/ FsLoopRaises \/ FsOpenReport
        \/ FsOpenReportFails \/ FsReportFails \/ FsCollect \/ FsReturn

SpecFs == InitFs /\ [][NextFs]_vars

-----------------------------------------------------------------------------
(* Vocabulary of the properties *)

\* the tables of the page that passed validation, by kind, as indexes into tables
ValidNb == {k \in 1..Len(tables) :
                tables[k].cls = "nb" /\ valid_standard_nb_table(tables[k])}
ValidData == {k \in 1..Len(tables) :
                /\ tables[k].cls # "nb" /\ tables[k].border = "1"
                /\ valid_standard_data_table(tables[k])}

\* the n-th smallest element of a set of indexes
NthOf(S, n) == CHOOSE k \in S : Cardinality({m \in S : m <= k}) = n

Min(a, b) == IF a <= b THEN a ELSE b

STATEMENT_CODES ==
    {fs \o <<"_">> \o kind : fs \in {<<"C", "F", "S">>, <<"O", "F", "S">>},
                             kind \in {<<"B", "S">>, <<"I", "S">>, <<"C", "I", "S">>}}

\* the captions of the allowed set that name a statement kind
KIND_CAPTIONS == TARGET_SJ_LIST \ {JAEMUJEPYO, YEONGYEOL \o JAEMUJEPYO}

\* the resolution in the specified order: 포괄손익계산서, then 재무상태표, then 손익계산서
SpecifiedCode(caption) ==
    (IF Contains(caption, YEONGYEOL) THEN <<"C", "F", "S">> ELSE <<"O", "F", "S">>)
        \o <<"_">> \o
    (IF Contains(caption, POGWALSONIK) THEN <<"C", "I", "S">>
     ELSE IF Contains(caption, JAEMUSANGTAEPYO) THEN <<"B", "S">>
     ELSE IF Contains(caption, SONIK) THEN <<"I", "S">>
     ELSE <<>>)

\* a cell text that matches '제 <digits> 기'
IsPeriod(text) == text # None /\ PeriodMatch(Strip(text))

\* row scan, for each row of RowSamples: whether its first cell has text (such a
\* row writes the level map), and then its leading spaces and its cleaned name
RowFacts ==
    [row \in RowSamples |->
        IF Len(row) >= 1 /\ Truthy(row[1])
        THEN [named |-> TRUE,
              level |-> LeadingSpaces(RawName(row[1])),
              name |-> clean_account_name(RawName(row[1]))]
        ELSE [named |-> FALSE, level |-> 0, name |-> <<>>]]
Named(row) == RowFacts[row].named
LevelOfRow(row) == RowFacts[row].level
NameOfRow(row) == RowFacts[row].name
\* a row that is not skipped: it is read to its end, it has a name, and the
\* name is not 과목
RowEmitted(row) ==
    ~RowRaises(row) /\ Named(row) /\ NameOfRow(row) # <<>> /\ NameOfRow(row) # GWAMOK

\* the indexes of the rows that are not skipped, in row order
RECURSIVE EmittedFrom(_, _)
EmittedFrom(rs, j) ==
    IF j > Len(rs) THEN <<>>
    ELSE (IF RowEmitted(rs[j]) THEN <<j>> ELSE <<>>) \o EmittedFrom(rs, j + 1)
EmittedIdx == EmittedFrom(rows, 1)

\* the accounts that can be traced to their row
Traced == 1..Min(Len(accounts), Len(EmittedIdx))

-----------------------------------------------------------------------------
(* Properties of the page scan *)

\* C1 (as claimed): when the scan returns, the record made from the N-th nb table
\* that passed validation holds the accounts of the N-th data table that passed
\* validation, whatever rejected tables stand between them.
C1_OrdinalPairing ==
    pc = "done" =>
        \A p \in 1..Len(dataset) :
            LET n == Cardinality({k \in ValidNb : k <= made[p]})
            IN  n <= Cardinality(ValidData) =>
                    dataset[p].data = AccountData(tables[NthOf(ValidData, n)], curYear)

\* C2 (as claimed): every record of the result carries one of the six statement
\* codes; a caption of the allowed set that names no kind gives no record.
C2_SixCodes ==
    \A p \in 1..Len(dataset) : dataset[p].sj_div \in STATEMENT_CODES

\* C3 (as claimed): the scan returns min(valid nb tables, valid data tables) records.
C3_MinCount ==
    pc = "done" =>
        Len(dataset) = Min(Cardinality(ValidNb), Cardinality(ValidData))

\* C4 (as claimed): the data table that follows a valid nb table whose caption is
\* outside the allowed set is discarded with it: handling it changes no record.
C4_PairDiscarded ==
    [][(lastOut = "caption_miss" /\ lastOut' \in {"data_merged", "data_dropped"})
            => dataset' = dataset]_vars

-----------------------------------------------------------------------------
(* Properties of the statement resolution and of the validators *)

\* C5: for the six captions that name a kind, the code's chain (재무상태표, then
\* 포괄손익계산서, then 손익계산서) gives the code of the specified order; 연결포괄손익계산서
\* gives CFS_CIS and 재무상태표 gives OFS_BS.
C5_ResolutionOrder ==
    (pc = "done" /\ input.kind = "caption"
        /\ clean_paragraph_text(input.text) \in KIND_CAPTIONS)
    => /\ verdict = SpecifiedCode(clean_paragraph_text(input.text))
       /\ (clean_paragraph_text(input.text) = YEONGYEOL \o POGWALSONIK
              => verdict = <<"C", "F", "S", "_", "C", "I", "S">>)
       /\ (clean_paragraph_text(input.text) = JAEMUSANGTAEPYO
              => verdict = <<"O", "F", "S", "_", "B", "S">>)

C5_Witness ==
    /\ pc = "done" /\ input.kind = "caption"
    /\ input.text # YEONGYEOL \o POGWALSONIK
    /\ clean_paragraph_text(input.text) = YEONGYEOL \o POGWALSONIK
    /\ verdict = <<"C", "F", "S", "_", "C", "I", "S">>

\* C6 (as claimed): the nb validator accepts exactly the tables of at least 5 rows
\* whose rows 1, 2 and 3 each hold a matching cell in any position.
C6_AnyCell ==
    (pc = "done" /\ input.kind = "nb") =>
        verdict = (/\ Len(input.table.trs) >= 5
                   /\ \A i \in 1..3 :
                        \E c \in 1..Len(input.table.trs[i + 1]) :
                            IsPeriod(input.table.trs[i + 1][c]))

\* C6 (amended): the nb validator accepts exactly the tables of at least 5 rows
\* whose rows 1, 2 and 3 each have a first cell that matches.
C6_FirstCell ==
    (pc = "done" /\ input.kind = "nb") =>
        verdict = (/\ Len(input.table.trs) >= 5
                   /\ \A i \in 1..3 :
                        /\ input.table.trs[i + 1] # <<>>
                        /\ IsPeriod(input.table.trs[i + 1][1]))

\* a table of 5 rows or more is rejected although one of its rows holds a matching
\* cell behind a first cell that does not match, and is accepted without that row
C6_Witness ==
    /\ pc = "done" /\ input.kind = "nb"
    /\ Len(input.table.trs) >= 5
    /\ \A i \in 1..3 : \E c \in 1..Len(input.table.trs[i + 1]) :
            IsPeriod(input.table.trs[i + 1][c])
    /\ \E i \in 1..3 : ~IsPeriod(input.table.trs[i + 1][1])
    /\ verdict = FALSE

\* C7 (as claimed): the data validator accepts exactly the tables with a header row
\* of 4 cells whose cell 0 is blank and whose cells 1, 2, 3 are blank or matching.
C7_HeaderCells ==
    (pc = "done" /\ input.kind = "data") =>
        verdict = (/\ Len(input.table.thead) > 0
                   /\ Len(input.table.thead[1]) = 4
                   /\ Strip(input.table.thead[1][1]) = <<>>
                   /\ \A j \in 1..3 :
                        \/ Strip(input.table.thead[1][j + 1]) = <<>>
                        \/ IsPeriod(input.table.thead[1][j + 1]))

-----------------------------------------------------------------------------
(* Properties of the row scan *)

\* the levels below `level` that a row before row i has written
WrittenBelow(i, level) ==
    {l \in 0..(level - 1) :
        \E j \in 1..(i - 1) : Named(rows[j]) /\ LevelOfRow(rows[j]) = l}

\* C8 (as claimed): every emitted account has as many ancestors as its level.
C8_LengthIsLevel ==
    \A k \in 1..Len(accounts) :
        Len(accounts[k].ancestors) = accounts[k].account_level

\* C8 (amended): every emitted account has one ancestor for each level below its
\* own that an earlier row of the table has written, hence at most as many as its
\* level, and exactly as many when no level below it was skipped.
C8_LengthIsWrittenLevels ==
    \A k \in Traced :
        LET i == EmittedIdx[k]
            level == LevelOfRow(rows[i])
        IN  /\ accounts[k].account_level = level
            /\ Len(accounts[k].ancestors) = Cardinality(WrittenBelow(i, level))
            /\ Len(accounts[k].ancestors) <= level
            /\ (Len(accounts[k].ancestors) = level <=> WrittenBelow(i, level) = 0..(level - 1))

\* an account at level 2 below a row of level 0, with level 1 never written
C8_Witness ==
    \E k \in Traced :
        /\ accounts[k].account_level = 2
        /\ Len(accounts[k].ancestors) = 1
        /\ WrittenBelow(EmittedIdx[k], 2) = {0}

\* C9 (as claimed): every ancestor of an emitted row is the name of an earlier row
\* of smaller level, with no row of a level less than or equal to the ancestor's
\* between the two.
C9_Enclosing ==
    \A k \in Traced :
        LET i == EmittedIdx[k]
        IN  \A q \in 1..Len(accounts[k].ancestors) :
                \E j \in 1..(i - 1) :
                    /\ Named(rows[j])
                    /\ NameOfRow(rows[j]) = accounts[k].ancestors[q]
                    /\ LevelOfRow(rows[j]) < LevelOfRow(rows[i])
                    /\ \A m \in (j + 1)..(i - 1) :
                           Named(rows[m]) => LevelOfRow(rows[m]) > LevelOfRow(rows[j])

\* C9 (amended): every ancestor of an emitted row is the name of an earlier row of
\* smaller level, the most recent row at that level: no row between the two has a
\* level equal to the ancestor's (a row of a smaller level may lie between).
C9_MostRecentAtLevel ==
    \A k \in Traced :
        LET i == EmittedIdx[k]
        IN  \A q \in 1..Len(accounts[k].ancestors) :
                \E j \in 1..(i - 1) :
                    /\ Named(rows[j])
                    /\ NameOfRow(rows[j]) = accounts[k].ancestors[q]
                    /\ LevelOfRow(rows[j]) < LevelOfRow(rows[i])
                    /\ \A m \in (j + 1)..(i - 1) :
                           Named(rows[m]) => LevelOfRow(rows[m]) # LevelOfRow(rows[j])

\* an emitted row reports a row of an earlier subtree: a row of smaller level than
\* the ancestor's lies between the two
C9_Witness ==
    \E k \in Traced :
        LET i == EmittedIdx[k]
        IN  \E j \in 1..(i - 1), m \in 1..(i - 1) :
                /\ j < m
                /\ Named(rows[j]) /\ Named(rows[m])
                /\ LevelOfRow(rows[m]) < LevelOfRow(rows[j])
                /\ LevelOfRow(rows[j]) < LevelOfRow(rows[i])
                /\ Len(accounts[k].ancestors) = 2
                /\ accounts[k].ancestors[2] = NameOfRow(rows[j])
                /\ accounts[k].ancestors[1] = NameOfRow(rows[m])
                /\ NameOfRow(rows[j]) # NameOfRow(rows[m])

-----------------------------------------------------------------------------
(* Properties of the amounts of a row *)

\* the data cells of a row: the cells after the name cell, three at most
DataCells(row) == IF Len(row) - 1 < 3 THEN Len(row) - 1 ELSE 3

\* a cell text that is empty or white space only
Blank(text) == text # None /\ Strip(text) = <<>>

\* C11 (as claimed): an emitted row with three data cells has three amount
\* entries, the k-th under the year of column k, and a cell that is empty or
\* white space only gives the amount "0".
C11_EveryColumn ==
    \A i \in Traced :
        LET row == rows[EmittedIdx[i]]
            amounts == accounts[i].amounts
        IN  DataCells(row) = 3 =>
                /\ Len(amounts) = 3
                /\ \A k \in 1..3 :
                    /\ amounts[k].year = YearsOf(curYear)[k]
                    /\ Blank(row[k + 1]) => amounts[k].amount = <<"0">>

\* the decimal text of an integer
DecimalOf(n) == IF n < 0 THEN <<"-">> \o StrOf(0 - n) ELSE StrOf(n)

\* an emitted row whose three data cells all have text: entry k is cell k's
AllText(row) == DataCells(row) = 3 /\ \A k \in 2..4 : Truthy(row[k])

\* C12 (as claimed): the amount recorded for a data cell is the number the cell
\* text stands for: parentheses negate, thousands separators are removed, so
\* "(1,234)" is recorded as -1234 and "1,234" as 1234.
C12_AmountIsNumber ==
    \A i \in Traced :
        LET row == rows[EmittedIdx[i]]
        IN  AllText(row) =>
                \A k \in 1..3 :
                    accounts[i].amounts[k].amount
                        = DecimalOf(str_to_number(PyStr(row[k + 1])))

-----------------------------------------------------------------------------
(* Properties of the failure paths *)

\* what a loop iteration reports when its table fails: rejected by a validator,
\* caption not in the allowed set, exception while the table is read
TableFailures == {"nb_rejected", "caption_miss", "data_rejected", "data_raised",
                  "table_raised"}

\* C13 (as claimed): an iteration whose table fails leaves every record of
\* dataset as it was and leaves the loop running, so that the tables after it
\* are still handled.
C13_FailureIsLocal ==
    [][(lastOut' \in TableFailures /\ (tables' # tables \/ lastOut' = "table_raised")) =>
          /\ Len(dataset') >= Len(dataset)
          /\ \A k \in 1..Len(dataset) : dataset'[k] = dataset[k]
          /\ pc' = pc]_vars

\* C14 (as claimed): the page extraction ends by returning a list on every path;
\* no failing step lets an exception reach the caller.
C14_NeverRaises == pc # "raised"

-----------------------------------------------------------------------------
(* Properties of the normaliser *)

\* a result of the normaliser is at hand
Cleaned == pc = "done" /\ input.kind = "text"

\* a Roman-numeral token: a run of Roman letters that the normaliser's own
\* pattern \b[IVXLCDM]+\b matches, or a Unicode Roman numeral
HasRomanToken(s) ==
    \E p \in 1..Len(s) : s[p] \in UNIROMAN \/ RomanMatch(s, p) > 0

\* C15 (as claimed): whatever the input, the result of the normaliser holds no
\* digit, no parenthesis of either width, no Roman-numeral token and no white
\* space.
C15_CleanOutput ==
    Cleaned =>
        \A out \in {verdict.account, verdict.paragraph} :
            /\ \A p \in 1..Len(out) :
                  out[p] \notin DIGITS \cup {"(", ")", "fw(", "fw)"} \cup WS
            /\ ~HasRomanToken(out)

\* C16: the normaliser returns a text for every input, the empty text for an
\* empty input and for a value that is not text, and its two names
\* (clean_account_name, clean_paragraph_text) return the same result.
C16_TotalAndSame ==
    Cleaned =>
        /\ verdict.account = verdict.paragraph
        /\ verdict.account \notin NonText
        /\ \A p \in 1..Len(verdict.account) : verdict.account[p] \notin WS
        /\ (input.text \in NonText \cup {<<>>}) => verdict.account = <<>>

\* a text with a prefix 가. that the pipeline removed, cleaned under both names
C16_Witness ==
    /\ Cleaned
    /\ input.text \notin NonText
    /\ Len(input.text) >= 2 /\ input.text[1] \in HANGUL /\ input.text[2] = "."
    /\ verdict.account # <<>>
    /\ verdict.account # input.text
    /\ verdict.paragraph = verdict.account

-----------------------------------------------------------------------------
(* Properties of the level map *)

\* the rows with leading-space counts 0, 2, 2, 4 named 자산, 유동자산, 비유동자산, 현금
YUDONGJASAN == <<"yu", "dong", "ja", "san">>
BIYUDONGJASAN == <<"bi", "yu", "dong", "ja", "san">>
ExampleRows ==
    <<<<JASAN, <<"1">>, <<"2">>, <<"3">>>>,
      <<Indent(2, YUDONGJASAN), <<"1">>, <<"2">>, <<"3">>>>,
      <<Indent(2, BIYUDONGJASAN), <<"1">>, <<"2">>, <<"3">>>>,
      <<Indent(4, HYEONGEUM), <<"1">>, <<"2">>, <<"3">>>>>>
ExampleScan == ScanFrom(ScanStart, ExampleRows, 1, YearsOf(<<"2", "0", "2", "4">>))

\* the rows before row i that wrote level l
WritersOf(rs, i, l) ==
    {j \in 1..(i - 1) : ~RowRaises(rs[j]) /\ Named(rs[j]) /\ LevelOfRow(rs[j]) = l}

\* the most recent of a non-empty set of row indexes
Latest(S) == CHOOSE j \in S : \A m \in S : m <= j

\* for the levels l, l+1, ..., level-1 that an earlier row wrote, by increasing
\* level, the name of the most recent row that wrote the level
RECURSIVE RecentBelow(_, _, _, _)
RecentBelow(rs, i, l, level) ==
    IF l >= level THEN <<>>
    ELSE (IF WritersOf(rs, i, l) # {} THEN <<NameOfRow(rs[Latest(WritersOf(rs, i, l))])>>
          ELSE <<>>)
             \o RecentBelow(rs, i, l + 1, level)

\* C18: a row at level L writes the map at L and nowhere else (a row without a
\* name writes nothing); the ancestors of an emitted row are the names most
\* recently stored at the levels below L, by increasing level; for the rows
\* 자산, 유동자산, 비유동자산, 현금 at 0, 2, 2, 4 the fourth row's ancestors are
\* [자산, 비유동자산].
C18_FrameAndRecent ==
    [][(rows' # rows /\ pc' = "rows") =>
          LET row == rows'[Len(rows')]
              L == LevelOfRow(row)
          IN  /\ IF Named(row)
                 THEN /\ DOMAIN byLevel' = DOMAIN byLevel \cup {L}
                      /\ byLevel'[L] = NameOfRow(row)
                      /\ \A l \in DOMAIN byLevel \ {L} : byLevel'[l] = byLevel[l]
                 ELSE byLevel' = byLevel
              /\ RowEmitted(row) =>
                    /\ Len(accounts') = Len(accounts) + 1
                    /\ accounts'[Len(accounts')].ancestors
                           = RecentBelow(rows', Len(rows'), 0, L)
              /\ Len(ExampleScan.accounts) = 4
              /\ ExampleScan.accounts[4].ancestors = <<JASAN, BIYUDONGJASAN>>
              /\ ExampleScan.accounts[4].account_level = 4]_vars

\* two rows at level 1 with different names, then an emitted row at level 2:
\* its ancestor is the second of the two, and the map holds that name at level 1
C18_Witness ==
    /\ Len(rows) = 3
    /\ \A j \in 1..2 : Named(rows[j]) /\ LevelOfRow(rows[j]) = 1
    /\ NameOfRow(rows[1]) # NameOfRow(rows[2])
    /\ RowEmitted(rows[3]) /\ LevelOfRow(rows[3]) = 2
    /\ accounts[Len(accounts)].ancestors = <<NameOfRow(rows[2])>>
    /\ byLevel[1] = NameOfRow(rows[2])

-----------------------------------------------------------------------------
(* Properties of a data table with a row that cannot be read *)

Readable(row) == ~RowRaises(row)

\* C19 (as claimed): when an accepted data table is handled and a record is
\* there to take it, the record gets the accounts of all the rows that can be
\* read: a malformed row is skipped alone, the rows before and after it are
\* emitted, and none of the accounts has an empty name.
C19_OnlyRowSkipped ==
    [][(tables' # tables /\ Len(dataset) > 0
            /\ tables'[Len(tables')].cls # "nb" /\ tables'[Len(tables')].border = "1"
            /\ valid_standard_data_table(tables'[Len(tables')])) =>
          LET table == tables'[Len(tables')]
              data == dataset'[Len(dataset')].data
          IN  /\ data = ScanFrom(ScanStart, SelectSeq(table.trs, Readable), 1,
                                 YearsOf(curYear)).accounts
              /\ \A k \in 1..Len(data) : data[k].account_name # <<>>]_vars

-----------------------------------------------------------------------------
(* Properties of the year labels *)

\* C20 (as claimed): with R the reporting year taken from the report URL
\* (current_year), the three data columns of an emitted row are labelled R,
\* R-1 and R-2 in that order.
C20_YearLabels ==
    \A i \in Traced :
        LET row == rows[EmittedIdx[i]]
        IN  AllText(row) =>
                \A k \in 1..3 :
                    accounts[i].amounts[k].year = StrOf(IntOf(curYear) - (k - 1))

-----------------------------------------------------------------------------
(* Properties of the storage *)

\* the documents stored under a key
DocsOf(docs, key) == {i \in 1..Len(docs) : KeyOf(docs[i]) = key}

\* C17: however often records are stored, there is exactly one document for
\* each (company, business year, reception number, statement code) that was
\* stored and none for any other; the first store of a key inserts, every later
\* store of the key updates that document to the record just stored and adds
\* no document.
C17_OneDocumentPerKey ==
    [][(lastOut' \in {"inserted", "updated"} /\ clock' # clock) =>
          LET key == KeyOf(input')
          IN  /\ \A k \in stored' : Cardinality(DocsOf(db', k)) = 1
              /\ \A i \in 1..Len(db') : KeyOf(db'[i]) \in stored'
              /\ (key \notin stored) =>
                    (lastOut' = "inserted" /\ Len(db') = Len(db) + 1)
              /\ (key \in stored) =>
                    (lastOut' = "updated" /\ Len(db') = Len(db))
              /\ \A i \in DocsOf(db', key) :
                    /\ db'[i].data = input'.data
                    /\ db'[i].coll = input'.sj_div
              /\ \A i \in 1..Len(db) :
                    KeyOf(db[i]) # key => db'[i] = db[i]]_vars

\* the same statement of the same filing stored three times, with two different
\* extractions: one document, holding the last one
C17_Witness ==
    /\ clock = 3
    /\ lastOut = "updated"
    /\ Cardinality(stored) = 1
    /\ Len(db) = 1
    /\ db[1].created_at = 1 /\ db[1].updated_at = 3
    /\ db[1].data = input.data

-----------------------------------------------------------------------------
(* Properties of the 과목 row and of the 주석 column *)

\* the row an iteration of the row loop has just gone through without raising
Scanned == pc \in {"rows", "pastrows"} /\ pc' = pc /\ rows' # rows
ScannedRow == rows'[Len(rows')]

\* the row's first cell can be read and holds a text
HasNameText(row) == Len(row) >= 1 /\ row[1] # Broken /\ Truthy(row[1])

\* the row's name is normalised to 과목
IsItemRow(row) == HasNameText(row) /\ clean_account_name(RawName(row[1])) = GWAMOK

\* C21 (as claimed): a row whose normalised name is 과목 adds no account and
\* leaves ord_value as it was, and the level map holds 과목 at the row's level
\* afterwards.
C21_ItemRowWritesLevel ==
    [][(Scanned /\ IsItemRow(ScannedRow)) =>
          /\ accounts' = accounts
          /\ ordValue' = ordValue
          /\ LeadingSpaces(RawName(ScannedRow[1])) \in DOMAIN byLevel'
          /\ byLevel'[LeadingSpaces(RawName(ScannedRow[1]))] = GWAMOK]_vars

\* the columns of a row (counted from 0) that hold amounts: every column after
\* the name but the 주석 column
DataCols(row, noise_col_idx) ==
    SelectSeq([k \in 1..(Len(row) - 1) |-> k], LAMBDA k : k # noise_col_idx)

\* the table under scan has a 주석 column and the row is read and appended
NotedRowAppended ==
    /\ Scanned /\ pc = "pastrows"
    /\ NoiseColIdx(input) >= 1
    /\ ~PastSkipped(Len(rows), NoiseColIdx(input), FromHeader(input))
    /\ HasNameText(ScannedRow)
    /\ Len(accounts') = Len(accounts) + 1

\* C22 (as claimed): in a table with a 주석 column, the appended row has one
\* amount entry for each of its other data columns, in column order, the m-th
\* of them labelled with the reporting year minus (m - 1).
C22_NotesColumnSkipped ==
    [][NotedRowAppended =>
          LET cols == DataCols(ScannedRow, NoiseColIdx(input))
              amounts == accounts'[Len(accounts')].amounts
          IN  /\ Len(amounts) = Len(cols)
              /\ \A m \in 1..Len(cols) :
                    /\ amounts[m].year = StrOf(IntOf(curYear) - (m - 1))
                    /\ amounts[m].amount = AmountText(TextOf(ScannedRow[cols[m] + 1]))]_vars

-----------------------------------------------------------------------------
(* Properties of the unit *)

\* the unit the pattern captures in the last row of a title table, None when
\* the row does not match
TrailingUnit(table) == UnitFrom(RowText(table.trs[Len(table.trs)]), 1)

\* C23 (as claimed): the unit of every record is the text the pattern captures
\* in the last row of its title table, whatever the number of rows; without a
\* match it is a value that says so, not a missing value.
C23_UnitFromTrailingRow ==
    \A p \in 1..Len(made) :
        p <= Len(dataset) =>
            IF TrailingUnit(tables[made[p]]) # None
            THEN dataset[p].unit = TrailingUnit(tables[made[p]])
            ELSE dataset[p].unit # None

-----------------------------------------------------------------------------
(* Properties of the level *)

\* the number of space characters a text begins with
SpacesInFront(text) == RunLen(text, 1, {"sp"})

\* the row gone through has been appended to the accounts
RowAppended == Scanned /\ HasNameText(ScannedRow) /\ Len(accounts') = Len(accounts) + 1

\* C24 (as claimed): the level of an appended row is the number of space
\* characters its first cell begins with once each full-width space is replaced
\* by a space; a tab or a line break in front is not counted.
C24_LevelCountsSpaces ==
    [][RowAppended =>
          accounts'[Len(accounts')].account_level
              = SpacesInFront(RawName(ScannedRow[1]))]_vars

-----------------------------------------------------------------------------
(* Properties of the state of the scan across tables *)

\* the table of the iteration just made, and whether its rows were scanned to
\* the end
TableScanned == pc = "loop" /\ tables' # tables /\ lastOut' \in {"data_merged", "data_dropped"}
ScannedTable == tables'[Len(tables')]

\* row j of the table has a name
NamedAt(table, j) == HasNameText(table.trs[j])
NameAt(table, j) == clean_account_name(RawName(table.trs[j][1]))
LevelAt(table, j) == LeadingSpaces(RawName(table.trs[j][1]))

\* every ancestor of the account is the name of a row of the table that stands
\* above the account's row, at a lower level
AncestorsFromAbove(table, account) ==
    \E j \in 1..Len(table.trs) :
        /\ NamedAt(table, j)
        /\ RawName(table.trs[j][1]) = account.raw_account_name
        /\ \A m \in 1..Len(account.ancestors) :
              \E h \in 1..(j - 1) :
                  /\ NamedAt(table, h)
                  /\ NameAt(table, h) = account.ancestors[m]
                  /\ LevelAt(table, h) < account.account_level

\* C25: after the scan of a data table the level map holds only names written
\* by rows of that table, and every ancestor reported for one of its rows is
\* the name of a row of the same table above it - nothing is left over from a
\* table scanned before.
C25_MapPerTable ==
    [][TableScanned =>
          /\ \A l \in DOMAIN byLevel' :
                \E j \in 1..Len(ScannedTable.trs) :
                    /\ NamedAt(ScannedTable, j)
                    /\ LevelAt(ScannedTable, j) = l
                    /\ NameAt(ScannedTable, j) = byLevel'[l]
          /\ \A i \in 1..Len(accounts') : AncestorsFromAbove(ScannedTable, accounts'[i])
          /\ lastOut' = "data_merged" => dataset'[Len(dataset')].data = accounts']_vars

\* C25 (witness): a second data table has been scanned after one that left
\* names in the level map, and its first row, an indented one, has been
\* reported without ancestors.
C25_Witness ==
    /\ pc = "loop" /\ lastOut = "data_merged"
    /\ \E k \in 1..(Len(tables) - 1) : tables[k] = DataTable(StdHeader, BodyA)
    /\ tables[Len(tables)] = DataTable(StdHeader, BodyB)
    /\ dataset[Len(dataset)].data[1].account_level = 1
    /\ dataset[Len(dataset)].data[1].ancestors = <<>>
    /\ 0 \in DOMAIN byLevel

-----------------------------------------------------------------------------
(* Properties of the effect of a data table on the result *)

\* the iteration just made was over a data table (border 1, not of class nb)
DataTableHandled ==
    /\ pc = "loop" /\ tables' # tables
    /\ ScannedTable.cls # "nb" /\ ScannedTable.border = "1"

\* C27: an iteration over a data table leaves the number of records and every
\* record but the last as they were, changes nothing of the last record but
\* its account list, and goes on with the loop; with no record yet, the result
\* stays empty.
C27_DataTableFrame ==
    [][DataTableHandled =>
          /\ Len(dataset') = Len(dataset)
          /\ \A k \in 1..(Len(dataset) - 1) : dataset'[k] = dataset[k]
          /\ Len(dataset) > 0 =>
                dataset' = [dataset EXCEPT ![Len(dataset)].data = dataset'[Len(dataset)].data]
          /\ pc' = "loop"]_vars

\* C27 (witness): a data table scanned before any record was appended has left
\* the result empty, and a later data table has filled the one record made
\* since.
C27_Witness ==
    /\ pc = "loop" /\ Len(tables) = 3
    /\ tables[1] = DataTable(StdHeader, BodyA)
    /\ tables[2].cls = "nb"
    /\ tables[3] = DataTable(StdHeader, BodyB)
    /\ lastOut = "data_merged"
    /\ Len(dataset) = 1
    /\ Len(dataset[1].data) = 2

-----------------------------------------------------------------------------
(* Properties of the run over one company *)

\* the drivers created and not yet cleaned up
Alive == (1..created) \ cleaned

\* C28: at no time is more than one created driver alive, and when get_corp_fs
\* has returned, by whichever path, the driver attribute is None and every
\* driver created has been cleaned up.
C28_DriverLifecycle ==
    /\ Cardinality(Alive) <= 1
    /\ driver # NoDriver => Alive = {driver}
    /\ pc = "fs_done" => (driver = NoDriver /\ Alive = {})

\* C28 (witness): a run has returned its records after creating the driver of
\* the search and a driver for each of two reports.
C28_Witness ==
    /\ pc = "fs_done" /\ lastOut = "return"
    /\ created = 3 /\ cleaned = {1, 2, 3}
    /\ result.success

\* the records of a list that carry the code
CountOf(data, code) == Cardinality({k \in 1..Len(data) : data[k].sj_div = code})

\* C29 (as claimed): when get_corp_fs has returned, success is True exactly when the data
\* returned is not empty, and for each of the six codes the summary counts the
\* returned records with that code and says "collected" exactly when that
\* count is above 0, "not_found" otherwise.
C29_SuccessAndSummary ==
    pc = "fs_done" =>
        /\ result.success <=> (result.data # <<>>)
        /\ DOMAIN result.summary = FS_CODES
        /\ \A code \in FS_CODES :
              /\ result.summary[code].data_count = CountOf(result.data, code)
              /\ result.summary[code].status =
                     IF CountOf(result.data, code) > 0 THEN "collected" ELSE "not_found"


\* C30 (as claimed): the normaliser applied to its own result gives that result
\* again, whatever the text it was first called with.
C30_CleanIdempotent ==
    (pc = "done" /\ input.kind = "text") =>
        clean_account_name(verdict.account) = verdict.account

====
